---------------------------- MODULE Spec2Model ----------------------------
(* A state-machine model of the concurrency core of AIstudioProxyAPI:      *)
(*   api_utils/model_manager.py      ModelManager (serialized model switch)*)
(*   api_utils/state_manager.py      GlobalStateManager (model fields)     *)
(*   api_utils/graceful_shutdown.py  GracefulShutdownManager               *)
(*   api_utils/session_manager.py    Session, SessionManager               *)
(*   api_utils/task_manager.py       AsyncTaskManager and its global       *)
(*   api_utils/client_connection.py  setup_disconnect_monitoring           *)
(* The program runs on one asyncio event loop: code between two awaits     *)
(* that really suspend is one atomic step.  Acquiring a free asyncio.Lock  *)
(* does not suspend, so a lock whose holders never suspend is never found  *)
(* held and the block it guards is part of the surrounding step.           *)
(* Each component has its own specification; a component's specification   *)
(* leaves the other components' variables unchanged.                       *)
EXTENDS Integers, Sequences, FiniteSets, TLC

VARIABLES
    \* ---- ModelManager / GlobalStateManager (model fields)
    switch_lock,            \* ModelManager._switch_lock: 0 free, else the holder
    switching_in_progress,  \* ModelManager._switching_in_progress
    current_model_id,       \* GlobalStateManager._current_ai_studio_model_id
    parsed_model_list,      \* ids of GlobalStateManager._parsed_model_list
    excluded_model_ids,     \* GlobalStateManager._excluded_model_ids
    mm_pc,                  \* position of each switch_model_safe call
    mm_target,              \* target_model_id of each call
    mm_result,              \* what each call returned
    backend_running,        \* calls now inside switch_ai_studio_model
    backend_calls,          \* number of switch_ai_studio_model invocations
    backend_failed,         \* invocations that returned False or raised
    \* ---- GracefulShutdownManager
    shutdown_handlers,      \* _shutdown_handlers: handler names in registration order
    is_shutting_down,       \* _is_shutting_down
    shutdown_event,         \* _shutdown_event is set
    defaults_installed,     \* setup_default_shutdown_handlers has run
    add_rejected,           \* an add_shutdown_handler call was refused
    sd_pc,                  \* position of each shutdown() call
    sd_i,                   \* index of the running shutdown's for loop, 0 outside it
    sd_log,                 \* handler starts and ends, in the order they happened
    \* ---- SessionManager, Session
    sessions,               \* SessionManager.sessions: ids of the initialized sessions
    rr_index,               \* SessionManager._rr_index
    init_pos,               \* initialize_all: index in files of the file at hand
    session_lock,           \* Session.lock of each session: 0 free, else the holder
    req_pc,                 \* position of each request
    req_session,            \* the session acquire_session gave the request, 0 for None
    auth_dir,               \* the auth directory: does it exist, and its listing
    files,                  \* initialize_all: the sorted list of credential files
    init_pc,                \* position of initialize_all
    context,                \* Session.context of each Session: none or open
    page,                   \* Session.page of each Session is set
    is_ready,               \* Session.is_ready of each Session
    init_result,            \* what Session.initialize returned: none, true, false
    acquired,               \* what successive acquire_session calls returned
    \* ---- AsyncTaskManager and the global _task_manager
    task_manager,           \* _task_manager: 0 for None, else the manager
    tm_created,             \* AsyncTaskManager instances created so far
    tm_tasks,               \* _tasks of each manager
    tm_named,               \* _named_tasks of each manager: name -> task, 0 no entry
    tm_shutting,            \* _is_shutting_down of each manager
    task_state,             \* new, pending, cancelling, done (callbacks not yet run), reaped
    task_name,              \* the name a task was created under
    task_mgr,               \* the manager whose create_task created the task
    tm_last_create,         \* manager and outcome of the latest create_task call
    ca_pc,                  \* position of the cancel_all_tasks call
    ca_mgr,                 \* the manager it runs on
    ca_batch,               \* its tasks_to_cancel
    ca_cleanup,             \* it was called by cleanup_global_tasks
    cleanup_called,         \* cleanup_global_tasks has called cancel_all_tasks
    cb_seen,                \* user callbacks so far: one raised, an exception
                            \* escaped, one found its task still registered
    ct_pc,                  \* the cancel_task call: idle, waiting, returned_true,
                            \* returned_false
    ct_name,                \* the name it was called with
    ct_task,                \* the task it cancelled, 0 for none
    \* ---- setup_disconnect_monitoring (one request's monitor)
    disconnect_count,       \* disconnect_count of the closure
    client_disconnected_event, \* client_disconnected_event is set
    result_future,          \* pending, result, exc_499, exc_500
    lm_pc,                  \* position of check_disconnect_periodically
    lm_exit,                \* why the loop ended: none, active, passive, error, cancelled
    lm_signals,             \* the latest signals read, oldest first, each with its path
    lm_last,                \* the latest signal of each path
    lm_invalid_state,       \* set_exception was called on a future that was done
    lm_cancelled,           \* calls of disconnect_check_task.cancel() so far
    \* ---- GlobalStateManager instances and the global singletons
    stores,                 \* the fields of each GlobalStateManager instance
    state_lock,             \* _state_lock of each instance: << >> free, else the holder
    state_manager,          \* _state_manager: 0 for None, else the instance
    st_created,             \* GlobalStateManager instances made by get_state_manager
    model_manager,          \* _model_manager: 0 for None, else its _state_manager
    state_proxy,            \* _state_proxy: 0 for None, else its _state_manager
    arg_list,               \* contents of the list object the caller passes
    st_last_op,             \* the latest method that wrote to a store
    set_list_calls,         \* set_model_list calls so far, counted up to 2
    fetch_event_sets,       \* _model_list_fetch_event.set() calls, counted up to 2
    wr_pc,                  \* position of each set_current_model_id call
    rd_pc,                  \* position of each get_current_model_id call
    rd_result,              \* what each get_current_model_id call returned
    rd_expected,            \* the latest complete write at each read
    st_completed,           \* the model id of the latest complete write
    bi_pc,                  \* position of the set_browser_instance call
    co_pc,                  \* each cache_operation caller: idle, waiting, inside
    params_cache_lock,      \* holder of _params_cache_lock, 0 when free
    \* ---- BrowserResourceManager
    rm_browser,             \* _browser: 0 for None, else the browser
    br_connected,           \* is_connected() of each browser
    rm_contexts,            \* _contexts
    rm_pages,               \* _pages
    rm_lock,                \* _lock: free, or held by set_browser
    rm_is_shutting_down,    \* _is_shutting_down
    ctx_state,              \* the context of each user: none, open, closed
    page_state,             \* the page of each user: none, open, closed
    rc_pc,                  \* position of each caller
    us_kind,                \* the block of each user: create_context, create_page
    us_exc,                 \* an exception is on its way out of the user's block
    us_result,              \* how the user's block ended: refused, exited, raised
    mc_op,                  \* the call of the manager caller: set_browser, close_all
    mc_new,                 \* the browser set_browser was called with
    mc_target,              \* the page or context _close_browser_internal is at
    mc_pages,               \* the rest of its pages_to_close
    mc_contexts,            \* the rest of its contexts_to_close
    sb_count                \* set_browser calls so far

mmVars == <<switch_lock, switching_in_progress, current_model_id,
            parsed_model_list, excluded_model_ids, mm_pc, mm_target,
            mm_result, backend_running, backend_calls, backend_failed>>

sdVars == <<shutdown_handlers, is_shutting_down, shutdown_event,
            defaults_installed, add_rejected, sd_pc, sd_i, sd_log>>

ssVars == <<sessions, rr_index, init_pos, session_lock, req_pc, req_session,
           auth_dir, files, init_pc, context, page, is_ready, init_result,
           acquired>>

tmVars == <<task_manager, tm_created, tm_tasks, tm_named, tm_shutting,
            task_state, task_name, task_mgr, tm_last_create,
            ca_pc, ca_mgr, ca_batch, ca_cleanup, cleanup_called, cb_seen,
            ct_pc, ct_name, ct_task>>

lmVars == <<disconnect_count, client_disconnected_event, result_future,
            lm_pc, lm_exit, lm_signals, lm_last, lm_invalid_state,
            lm_cancelled>>

stSingletons == <<state_manager, st_created, model_manager, state_proxy>>
stList == <<arg_list, set_list_calls, fetch_event_sets>>
stCalls == <<wr_pc, rd_pc, rd_result, rd_expected, st_completed, bi_pc>>
stCache == <<co_pc, params_cache_lock>>
stVars == <<stores, state_lock, stSingletons, stList, st_last_op, stCalls,
           stCache>>

rmVars == <<rm_browser, br_connected, rm_contexts, rm_pages, rm_lock,
            rm_is_shutting_down, ctx_state, page_state, rc_pc, us_kind,
            us_exc, us_result, mc_op, mc_new, mc_target, mc_pages,
            mc_contexts, sb_count>>

vars == <<mmVars, sdVars, ssVars, tmVars, lmVars, stVars, rmVars>>

\* what the steps of one component leave unchanged
mmOthers == <<sdVars, ssVars, tmVars, lmVars, stVars, rmVars>>
sdOthers == <<mmVars, ssVars, tmVars, lmVars, stVars, rmVars>>
ssOthers == <<mmVars, sdVars, tmVars, lmVars, stVars, rmVars>>
tmOthers == <<mmVars, sdVars, ssVars, lmVars, stVars, rmVars>>
lmOthers == <<mmVars, sdVars, ssVars, tmVars, stVars, rmVars>>
stOthers == <<mmVars, sdVars, ssVars, tmVars, lmVars, rmVars>>
rmOthers == <<mmVars, sdVars, ssVars, tmVars, lmVars, stVars>>

(***************************************************************************)
(* Bounds                                                                  *)
(***************************************************************************)
\* concurrent switch_model_safe calls
NumSwitchCallers == 2
\* shutdown() calls (direct ones and those a signal handler schedules)
NumShutdownCallers == 2
\* handlers the application registers besides the default ones
MaxCustomHandlers == 3
\* credential files in the auth directory
NumAuthFiles == 3
\* concurrent requests
NumRequests == 3
\* acquire_session calls whose results are kept
MaxAcquires == 6
\* concurrent set_current_model_id calls, each with a model id of its own
NumWriters == 2
\* concurrent get_current_model_id calls
NumReaders == 2
\* GlobalStateManager instances get_state_manager can make
MaxStores == 3
\* tasks submitted to the task managers
MaxTasks == 3
\* AsyncTaskManager instances get_task_manager creates
MaxManagers == 2

\* calls of disconnect_check_task.cancel() on one monitor
MaxCancels == 2

\* users of create_context and create_page
NumUsers == 1
\* browsers passed to set_browser
MaxBrowsers == 2

(***************************************************************************)
(* ModelManager: api_utils/model_manager.py                                *)
(* The model fields are read and written through the methods of the store, *)
(* each of which enters `async with self._state_lock`: a step that reads   *)
(* or writes them waits until that lock can be entered.                    *)
(***************************************************************************)
NoModel == "None"

\* the store's `async with self._state_lock` can be entered
store_lock_free == state_lock[1] = << >>
ModelIds == {"model_1", "model_2"}
SwitchCallers == 1..NumSwitchCallers

\* ModelManager.needs_model_switch
needs_model_switch(target) == current_model_id # target

\* a wrong is_valid_model: the excluded set is not consulted
is_valid_model_ignoring_excluded(model_id) == model_id \in parsed_model_list

\* ModelManager.is_valid_model
is_valid_model(model_id) ==
    IF model_id \in excluded_model_ids
    THEN FALSE
    ELSE model_id \in parsed_model_list

MMInit ==
    /\ switch_lock = 0
    /\ switching_in_progress = FALSE
    /\ current_model_id = NoModel
    /\ parsed_model_list = {}
    /\ excluded_model_ids = {}
    /\ mm_pc = [c \in SwitchCallers |-> "idle"]
    /\ mm_target \in [SwitchCallers -> ModelIds]
    /\ mm_result = [c \in SwitchCallers |-> "none"]
    /\ backend_running = {}
    /\ backend_calls = 0
    /\ backend_failed = 0

MMIdle ==
    /\ switch_lock = 0
    /\ switching_in_progress = FALSE
    /\ current_model_id = NoModel
    /\ parsed_model_list = {}
    /\ excluded_model_ids = {}
    /\ mm_pc = [c \in SwitchCallers |-> "idle"]
    /\ mm_target = [c \in SwitchCallers |-> "model_1"]
    /\ mm_result = [c \in SwitchCallers |-> "none"]
    /\ backend_running = {}
    /\ backend_calls = 0
    /\ backend_failed = 0

\* switch_model_safe is called: the call reaches `async with self._switch_lock`
switch_model_safe_call(c) ==
    /\ mm_pc[c] = "idle"
    /\ mm_pc' = [mm_pc EXCEPT ![c] = "wait_lock"]
    /\ UNCHANGED <<switch_lock, switching_in_progress, current_model_id,
                   parsed_model_list, excluded_model_ids, mm_target,
                   mm_result, backend_running, backend_calls, backend_failed>>
    /\ UNCHANGED mmOthers

\* a wrong exit of model_switch_context: the lock is released but the flag
\* is not restored
model_switch_context_exit_flag_kept(c, result) ==
    /\ switching_in_progress' = switching_in_progress
    /\ switch_lock' = 0
    /\ mm_pc' = [mm_pc EXCEPT ![c] = "done"]
    /\ mm_result' = [mm_result EXCEPT ![c] = result]

\* the finally of model_switch_context and the release of the lock
model_switch_context_exit(c, result) ==
    /\ switching_in_progress' = FALSE
    /\ switch_lock' = 0
    /\ mm_pc' = [mm_pc EXCEPT ![c] = "done"]
    /\ mm_result' = [mm_result EXCEPT ![c] = result]

\* a wrong model_switch_context: enters without waiting for the lock
model_switch_context_enter_unlocked(c) ==
    /\ mm_pc[c] = "wait_lock"
    /\ switch_lock' = c
    /\ switching_in_progress' = TRUE
    /\ mm_pc' = [mm_pc EXCEPT ![c] = "locked"]
    /\ UNCHANGED <<current_model_id, parsed_model_list, excluded_model_ids,
                   mm_target, mm_result, backend_running, backend_calls,
                   backend_failed>>
    /\ UNCHANGED mmOthers

\* model_switch_context up to its yield: the lock is taken when it is free
model_switch_context_enter(c) ==
    /\ mm_pc[c] = "wait_lock"
    /\ switch_lock = 0
    /\ switch_lock' = c
    /\ switching_in_progress' = TRUE
    /\ mm_pc' = [mm_pc EXCEPT ![c] = "locked"]
    /\ UNCHANGED <<current_model_id, parsed_model_list, excluded_model_ids,
                   mm_target, mm_result, backend_running, backend_calls,
                   backend_failed>>
    /\ UNCHANGED mmOthers

\* a wrong switch_model_safe: no re-check of the active model under the lock
switch_model_safe_check_skipped(c) ==
    /\ mm_pc[c] = "locked"
    /\ store_lock_free
    /\ IF ~ is_valid_model(mm_target[c])
       THEN /\ model_switch_context_exit(c, "false")
            /\ UNCHANGED <<backend_running, backend_calls>>
       ELSE /\ mm_pc' = [mm_pc EXCEPT ![c] = "backend"]
            /\ backend_running' = backend_running \cup {c}
            /\ backend_calls' = backend_calls + 1
            /\ UNCHANGED <<switch_lock, switching_in_progress, mm_result>>
    /\ UNCHANGED <<current_model_id, parsed_model_list, excluded_model_ids,
                   mm_target, backend_failed>>
    /\ UNCHANGED mmOthers

\* switch_model_safe from the lock to the backend call: the re-check, the
\* validation and the start of switch_ai_studio_model
switch_model_safe_check(c) ==
    /\ mm_pc[c] = "locked"
    /\ store_lock_free
    /\ IF ~ needs_model_switch(mm_target[c])
       THEN /\ model_switch_context_exit(c, "true")
            /\ UNCHANGED <<backend_running, backend_calls>>
       ELSE IF ~ is_valid_model(mm_target[c])
       THEN /\ model_switch_context_exit(c, "false")
            /\ UNCHANGED <<backend_running, backend_calls>>
       ELSE /\ mm_pc' = [mm_pc EXCEPT ![c] = "backend"]
            /\ backend_running' = backend_running \cup {c}
            /\ backend_calls' = backend_calls + 1
            /\ UNCHANGED <<switch_lock, switching_in_progress, mm_result>>
    /\ UNCHANGED <<current_model_id, parsed_model_list, excluded_model_ids,
                   mm_target, backend_failed>>
    /\ UNCHANGED mmOthers

BackendOutcomes == {"true", "false", "raise"}

\* `if switch_success:`, as if every outcome of the backend were a success
switch_success_always(outcome) == TRUE

\* `if switch_success:` after switch_ai_studio_model; an exception skips it
switch_success(outcome) == outcome = "true"

\* switch_ai_studio_model returns or raises; switch_model_safe stores the
\* target on success and leaves the context
switch_model_safe_backend_done(c, outcome) ==
    /\ mm_pc[c] = "backend"
    /\ switch_success(outcome) => store_lock_free
    /\ backend_running' = backend_running \ {c}
    /\ backend_failed' = IF outcome = "true"
                         THEN backend_failed ELSE backend_failed + 1
    /\ IF switch_success(outcome)
       THEN /\ current_model_id' = mm_target[c]
            /\ model_switch_context_exit(c, "true")
       ELSE /\ model_switch_context_exit(c, "false")
            /\ UNCHANGED current_model_id
    /\ UNCHANGED <<parsed_model_list, excluded_model_ids, mm_target,
                   backend_calls>>
    /\ UNCHANGED mmOthers

\* the task running switch_model_safe is cancelled at one of its two
\* suspension points: while it waits for the lock nothing is held; inside the
\* backend call CancelledError passes `except Exception` and the finally of
\* model_switch_context runs
switch_model_safe_cancelled(c) ==
    /\ mm_pc[c] \in {"wait_lock", "backend"}
    /\ IF mm_pc[c] = "backend"
       THEN /\ backend_running' = backend_running \ {c}
            /\ backend_failed' = backend_failed + 1
            /\ model_switch_context_exit(c, "cancelled")
       ELSE /\ mm_pc' = [mm_pc EXCEPT ![c] = "done"]
            /\ mm_result' = [mm_result EXCEPT ![c] = "cancelled"]
            /\ UNCHANGED <<switch_lock, switching_in_progress,
                           backend_running, backend_failed>>
    /\ UNCHANGED <<current_model_id, parsed_model_list, excluded_model_ids,
                   mm_target, backend_calls>>
    /\ UNCHANGED mmOthers

\* ModelManager.update_model_list_safe
update_model_list_safe(model_list) ==
    /\ switch_lock = 0
    /\ store_lock_free
    /\ parsed_model_list' = model_list
    /\ UNCHANGED <<switch_lock, switching_in_progress, current_model_id,
                   excluded_model_ids, mm_pc, mm_target, mm_result,
                   backend_running, backend_calls, backend_failed>>
    /\ UNCHANGED mmOthers

\* ModelManager.update_excluded_models_safe
update_excluded_models_safe(excluded_ids) ==
    /\ switch_lock = 0
    /\ store_lock_free
    /\ excluded_model_ids' = excluded_ids
    /\ UNCHANGED <<switch_lock, switching_in_progress, current_model_id,
                   parsed_model_list, mm_pc, mm_target, mm_result,
                   backend_running, backend_calls, backend_failed>>
    /\ UNCHANGED mmOthers

\* ModelManager.set_current_model_from_page
set_current_model_from_page(model_id) ==
    /\ switch_lock = 0
    /\ store_lock_free
    /\ current_model_id' = IF current_model_id # model_id
                           THEN model_id ELSE current_model_id
    /\ UNCHANGED <<switch_lock, switching_in_progress, parsed_model_list,
                   excluded_model_ids, mm_pc, mm_target, mm_result,
                   backend_running, backend_calls, backend_failed>>
    /\ UNCHANGED mmOthers

SwitchStep ==
    \E c \in SwitchCallers :
        \/ switch_model_safe_call(c)
        \/ model_switch_context_enter(c)
        \/ switch_model_safe_check(c)
        \/ \E outcome \in BackendOutcomes :
               switch_model_safe_backend_done(c, outcome)
        \/ switch_model_safe_cancelled(c)

MMNext ==
    \/ SwitchStep
    \/ \E l \in SUBSET ModelIds : update_model_list_safe(l)
    \/ \E e \in SUBSET ModelIds : update_excluded_models_safe(e)
    \/ \E m \in ModelIds : set_current_model_from_page(m)

\* the state in which N calls all request one valid target which is not the
\* active model
MMInitSame ==
    /\ switch_lock = 0
    /\ switching_in_progress = FALSE
    /\ mm_pc = [c \in SwitchCallers |-> "idle"]
    /\ mm_result = [c \in SwitchCallers |-> "none"]
    /\ backend_running = {}
    /\ backend_calls = 0
    /\ backend_failed = 0
    /\ current_model_id \in ModelIds \cup {NoModel}
    /\ parsed_model_list \in SUBSET ModelIds
    /\ excluded_model_ids \in SUBSET ModelIds
    /\ \E t \in ModelIds :
          /\ mm_target = [c \in SwitchCallers |-> t]
          /\ is_valid_model(t)
          /\ needs_model_switch(t)

(***************************************************************************)
(* GracefulShutdownManager: api_utils/graceful_shutdown.py                 *)
(***************************************************************************)
ShutdownCallers == 1..NumShutdownCallers
\* the handlers the application registers: a registration adds the next
\* name, or the first name once more
CustomHandlers == << "A", "B", "C", "D", "E", "F" >>

\* setup_default_shutdown_handlers: the handlers in the order it adds them
DefaultHandlers ==
    << "cleanup_async_tasks", "cleanup_websocket_connections",
       "cleanup_stream_proxy", "cleanup_browser_resources",
       "cleanup_playwright" >>

IsDefaultHandler(h) == \E k \in 1..Len(DefaultHandlers) : DefaultHandlers[k] = h

\* the predefined handlers catch every Exception of their body; a handler
\* of the application may return or raise
HandlerOutcomes(h) ==
    IF IsDefaultHandler(h) THEN {"return"} ELSE {"return", "raise"}

SDInit ==
    /\ shutdown_handlers = << >>
    /\ is_shutting_down = FALSE
    /\ shutdown_event = FALSE
    /\ defaults_installed = FALSE
    /\ add_rejected = FALSE
    /\ sd_pc = [c \in ShutdownCallers |-> "idle"]
    /\ sd_i = 0
    /\ sd_log = << >>

NumCustom ==
    Cardinality({k \in 1..Len(shutdown_handlers) :
                    ~ IsDefaultHandler(shutdown_handlers[k])})

\* a wrong add_shutdown_handler: it accepts handlers at any time
registration_closed_never == FALSE

\* the test `if self._is_shutting_down` of add_shutdown_handler
registration_closed == is_shutting_down

\* GracefulShutdownManager.add_shutdown_handler
add_shutdown_handler(handler) ==
    /\ shutdown_handlers' = IF registration_closed
                            THEN shutdown_handlers
                            ELSE Append(shutdown_handlers, handler)
    /\ add_rejected' = (add_rejected \/ registration_closed)
    /\ UNCHANGED <<is_shutting_down, shutdown_event, defaults_installed,
                   sd_pc, sd_i, sd_log>>
    /\ UNCHANGED sdOthers

\* setup_default_shutdown_handlers: five add_shutdown_handler calls
setup_default_shutdown_handlers ==
    /\ ~ defaults_installed
    /\ defaults_installed' = TRUE
    /\ shutdown_handlers' = IF registration_closed
                            THEN shutdown_handlers
                            ELSE shutdown_handlers \o DefaultHandlers
    /\ add_rejected' = (add_rejected \/ registration_closed)
    /\ UNCHANGED <<is_shutting_down, shutdown_event, sd_pc, sd_i, sd_log>>
    /\ UNCHANGED sdOthers

\* a wrong loop: the handlers in registration order
forward_handlers ==
    [i \in 1..Len(shutdown_handlers) |-> i]

\* reversed(self._shutdown_handlers): the positions of the handler list in
\* the order the loop of shutdown() visits them
reversed_handlers ==
    [i \in 1..Len(shutdown_handlers) |-> Len(shutdown_handlers) - i + 1]

\* a wrong shutdown(): it never finds a shutdown in progress
shutdown_in_progress_ignored == FALSE

\* the test `if self._is_shutting_down` at the head of shutdown()
shutdown_in_progress == is_shutting_down

SdEvent(ev, pos, c) == [ev |-> ev, pos |-> pos, by |-> c]

\* shutdown() up to its first suspension: a caller that finds a shutdown in
\* progress waits for the event; the other sets the flag and starts the
\* first handler of the loop, or with no handler sets the event and returns
shutdown_call(c) ==
    /\ sd_pc[c] = "idle"
    /\ IF shutdown_in_progress
       THEN /\ sd_pc' = [sd_pc EXCEPT ![c] = "waiting"]
            /\ UNCHANGED <<is_shutting_down, shutdown_event, sd_i, sd_log>>
       ELSE /\ is_shutting_down' = TRUE
            /\ IF Len(shutdown_handlers) = 0
               THEN /\ shutdown_event' = TRUE
                    /\ sd_pc' = [sd_pc EXCEPT ![c] = "done"]
                    /\ UNCHANGED <<sd_i, sd_log>>
               ELSE /\ sd_i' = 1
                    /\ sd_log' = Append(sd_log,
                                        SdEvent("start", reversed_handlers[1], c))
                    /\ sd_pc' = [sd_pc EXCEPT ![c] = "running"]
                    /\ UNCHANGED shutdown_event
    /\ UNCHANGED <<shutdown_handlers, defaults_installed, add_rejected>>
    /\ UNCHANGED sdOthers

\* a wrong loop: an Exception of a handler leaves the loop, as if the inner
\* try/except were missing and the outer one did not catch it
loop_continues_after_return_only(outcome) == outcome = "return"

\* the try/except Exception around `await handler()`: the loop goes on after
\* a handler that returned and after one that raised an Exception
loop_continues_after(outcome) == outcome \in {"return", "raise"}

\* the handler awaited by shutdown() returns or raises an Exception (which is
\* logged); the loop starts the next handler, or ends and the finally sets
\* the event
shutdown_handler_done(c, outcome) ==
    /\ sd_pc[c] = "running"
    /\ outcome \in HandlerOutcomes(shutdown_handlers[reversed_handlers[sd_i]])
    /\ IF ~ loop_continues_after(outcome)
       THEN /\ sd_i' = 0
            /\ sd_log' = Append(sd_log,
                                SdEvent(outcome, reversed_handlers[sd_i], c))
            /\ shutdown_event' = TRUE
            /\ sd_pc' = [sd_pc EXCEPT ![c] = "raised"]
       ELSE IF sd_i < Len(shutdown_handlers)
       THEN /\ sd_i' = sd_i + 1
            /\ sd_log' = sd_log \o
                  << SdEvent(outcome, reversed_handlers[sd_i], c),
                     SdEvent("start", reversed_handlers[sd_i + 1], c) >>
            /\ UNCHANGED <<sd_pc, shutdown_event>>
       ELSE /\ sd_i' = 0
            /\ sd_log' = Append(sd_log,
                                SdEvent(outcome, reversed_handlers[sd_i], c))
            /\ shutdown_event' = TRUE
            /\ sd_pc' = [sd_pc EXCEPT ![c] = "done"]
    /\ UNCHANGED <<shutdown_handlers, is_shutting_down, defaults_installed, add_rejected>>
    /\ UNCHANGED sdOthers

\* the task running shutdown() is cancelled while it awaits a handler or the
\* event: CancelledError passes both `except Exception`, the finally of the
\* running shutdown sets the event
shutdown_cancelled(c) ==
    /\ sd_pc[c] \in {"running", "waiting"}
    /\ IF sd_pc[c] = "running"
       THEN /\ sd_log' = Append(sd_log,
                                SdEvent("cancelled", reversed_handlers[sd_i], c))
            /\ sd_i' = 0
            /\ shutdown_event' = TRUE
       ELSE UNCHANGED <<sd_log, sd_i, shutdown_event>>
    /\ sd_pc' = [sd_pc EXCEPT ![c] = "cancelled"]
    /\ UNCHANGED <<shutdown_handlers, is_shutting_down, defaults_installed, add_rejected>>
    /\ UNCHANGED sdOthers

\* wait_for_shutdown() is called: the caller waits for the event
wait_for_shutdown(c) ==
    /\ sd_pc[c] = "idle"
    /\ sd_pc' = [sd_pc EXCEPT ![c] = "waiting"]
    /\ UNCHANGED <<shutdown_handlers, is_shutting_down, shutdown_event,
                   defaults_installed, add_rejected, sd_i, sd_log>>
    /\ UNCHANGED sdOthers

\* a wrong Event.wait(): it returns whether or not the event is set
event_wait_ready_always == TRUE

\* Event.wait() returns once the event is set
event_wait_ready == shutdown_event

\* `await self._shutdown_event.wait()` returns, in a shutdown() that found
\* the shutdown in progress or in wait_for_shutdown()
shutdown_wait_return(c) ==
    /\ sd_pc[c] = "waiting"
    /\ event_wait_ready
    /\ sd_pc' = [sd_pc EXCEPT ![c] = "waited"]
    /\ UNCHANGED <<shutdown_handlers, is_shutting_down, shutdown_event,
                   defaults_installed, add_rejected, sd_i, sd_log>>
    /\ UNCHANGED sdOthers

SDNext ==
    \/ \E h \in {CustomHandlers[NumCustom + 1], CustomHandlers[1]} :
          /\ NumCustom < MaxCustomHandlers
          /\ add_shutdown_handler(h)
    \/ setup_default_shutdown_handlers
    \/ \E c \in ShutdownCallers :
          \/ shutdown_call(c)
          \/ \E outcome \in {"return", "raise"} : shutdown_handler_done(c, outcome)
          \/ shutdown_cancelled(c)
          \/ wait_for_shutdown(c)
          \/ shutdown_wait_return(c)

(***************************************************************************)
(* SessionManager, Session: api_utils/session_manager.py                   *)
(***************************************************************************)
\* the sorted credential files of the auth directory, named by session id
AuthFiles == 1..NumAuthFiles
Requests == 1..NumRequests

\* a directory entry that is not a credential file (its name does not end
\* in .json); the credential files are named so that the lexicographic order
\* of the names is the order of the numbers
OtherFile == 0
DirEntries == AuthFiles \cup {OtherFile}

\* f.endswith('.json')
endswith_json(f) == f \in AuthFiles

\* the results of os.listdir: the entries of a directory in any order
RECURSIVE Listings(_)
Listings(S) ==
    IF S = {} THEN {<< >>}
    ELSE UNION {{<<e>> \o l : l \in Listings(S \ {e})} : e \in S}

SeqRange(s) == {s[i] : i \in 1..Len(s)}

\* files.sort() left out
list_sort_skipped(s) == s

\* files.sort(): ascending order of the names
RECURSIVE list_sort(_)
list_sort(s) ==
    IF s = << >> THEN << >>
    ELSE LET least == CHOOSE e \in SeqRange(s) : \A d \in SeqRange(s) : e <= d
         IN <<least>> \o list_sort(SelectSeq(s, LAMBDA e : e # least))

\* the state of SessionManager() and of the Session objects before
\* initialize_all, for the auth directory dir
SSInitDir(dir) ==
    /\ sessions = << >>
    /\ rr_index = 0
    /\ init_pos = 0
    /\ session_lock = [s \in AuthFiles |-> 0]
    /\ req_pc = [r \in Requests |-> "idle"]
    /\ req_session = [r \in Requests |-> 0]
    /\ auth_dir = dir
    /\ files = << >>
    /\ init_pc = "idle"
    /\ context = [s \in AuthFiles |-> "none"]
    /\ page = [s \in AuthFiles |-> FALSE]
    /\ is_ready = [s \in AuthFiles |-> FALSE]
    /\ init_result = [s \in AuthFiles |-> "none"]
    /\ acquired = << >>

\* an auth directory that holds every credential file and one other file,
\* listed in descending order
SSInit ==
    SSInitDir([exists |-> TRUE,
               listing |-> [i \in 1..(NumAuthFiles + 1) |-> NumAuthFiles + 1 - i]])

\* any auth directory: missing, or holding some of the entries in some order
SSInitAnyDir ==
    \E S \in SUBSET DirEntries :
       \E l \in Listings(S) :
          \E e \in (IF l = << >> THEN BOOLEAN ELSE {TRUE}) :
             SSInitDir([exists |-> e, listing |-> l])

\* initialize_all up to its first suspension: the directory test, the
\* filtered and sorted file list, and the Session of the first file
initialize_all_begin ==
    /\ init_pc = "idle"
    /\ LET fs == IF auth_dir.exists
                 THEN list_sort(SelectSeq(auth_dir.listing, endswith_json))
                 ELSE << >>
       IN /\ files' = fs
          /\ IF fs = << >>
             THEN init_pc' = "returned" /\ UNCHANGED init_pos
             ELSE init_pc' = "opening" /\ init_pos' = 1
    /\ UNCHANGED <<sessions, rr_index, session_lock, req_pc, req_session,
                   auth_dir, context, page, is_ready, init_result, acquired>>
    /\ UNCHANGED ssOthers

\* if await session.initialize(browser): self.sessions.append(session)
initialize_accepted(result) == result

\* Session.initialize of the current file returns result; initialize_all
\* appends the session or not and goes on to the next file, or returns
session_initialize_returns(result) ==
    LET f == files[init_pos] IN
    /\ init_result' = [init_result EXCEPT ![f] = IF result THEN "true" ELSE "false"]
    /\ sessions' = IF initialize_accepted(result) THEN Append(sessions, f)
                                                  ELSE sessions
    /\ IF init_pos < Len(files)
       THEN init_pos' = init_pos + 1 /\ init_pc' = "opening"
       ELSE init_pc' = "returned" /\ UNCHANGED init_pos
    /\ UNCHANGED <<rr_index, session_lock, req_pc, req_session, auth_dir,
                   files, acquired>>
    /\ UNCHANGED ssOthers

\* await initialize_page_logic(browser, profile_path) ends: it returns a
\* context and a page ("page"), returns no page and no context ("no_page"),
\* or raises an Exception before self.context and self.page are assigned
\* ("raise")
initialize_page_logic_returns(outcome) ==
    LET f == files[init_pos] IN
    /\ init_pc = "opening"
    /\ context' = [context EXCEPT ![f] = IF outcome = "page" THEN "open" ELSE @]
    /\ page' = [page EXCEPT ![f] = (outcome = "page")]
    /\ IF outcome = "page"
       THEN /\ is_ready' = [is_ready EXCEPT ![f] = TRUE]
            /\ init_pc' = "model_state"
            /\ UNCHANGED <<sessions, rr_index, init_pos, session_lock, req_pc,
                           req_session, auth_dir, files, init_result, acquired>>
            /\ UNCHANGED ssOthers
       ELSE /\ UNCHANGED is_ready
            /\ session_initialize_returns(FALSE)

\* await _handle_initial_model_state_and_storage(self.page) returns or
\* raises an Exception
handle_initial_model_state_returns(ok) ==
    /\ init_pc = "model_state"
    /\ UNCHANGED <<context, page, is_ready>>
    /\ IF ok
       THEN /\ init_pc' = "temp_chat"
            /\ UNCHANGED <<sessions, rr_index, init_pos, session_lock, req_pc,
                           req_session, auth_dir, files, init_result, acquired>>
            /\ UNCHANGED ssOthers
       ELSE session_initialize_returns(FALSE)

\* await enable_temporary_chat_mode(self.page) returns, and initialize
\* returns True, or raises an Exception, and initialize returns False
enable_temporary_chat_mode_returns(ok) ==
    /\ init_pc = "temp_chat"
    /\ UNCHANGED <<context, page, is_ready>>
    /\ session_initialize_returns(ok)

\* a wrong acquire_session: the cursor is advanced without wrapping
rr_index_after_no_wrap ==
    IF Len(sessions) = 0 THEN rr_index ELSE rr_index + 1

\* self._rr_index = (self._rr_index + 1) % len(self.sessions)
rr_index_after ==
    IF Len(sessions) = 0 THEN rr_index ELSE (rr_index + 1) % Len(sessions)

\* a wrong acquire_session: it gives out the first session of the pool
acquired_session_first ==
    IF Len(sessions) = 0 THEN 0 ELSE sessions[1]

\* what acquire_session returns: None (0) on an empty pool, else
\* self.sessions[self._rr_index]
acquired_session ==
    IF Len(sessions) = 0 THEN 0 ELSE sessions[rr_index + 1]

\* SessionManager.acquire_session, called for request r
acquire_session(r) ==
    /\ req_pc[r] = "idle"
    /\ req_session' = [req_session EXCEPT ![r] = acquired_session]
    /\ rr_index' = rr_index_after
    /\ req_pc' = [req_pc EXCEPT ![r] = IF Len(sessions) = 0 THEN "done"
                                                             ELSE "routed"]
    /\ UNCHANGED <<sessions, init_pos, session_lock, auth_dir, files, init_pc,
                   context, page, is_ready, init_result, acquired>>
    /\ UNCHANGED ssOthers

\* SessionManager.acquire_session, called by a caller that keeps what the
\* successive calls returned: the session, the size of the pool and the
\* cursor at the call
successive_acquire_session ==
    /\ Len(acquired) < MaxAcquires
    /\ acquired' = Append(acquired, [s |-> acquired_session,
                                     n |-> Len(sessions),
                                     c |-> rr_index])
    /\ rr_index' = rr_index_after
    /\ UNCHANGED <<sessions, init_pos, session_lock, req_pc, req_session,
                   auth_dir, files, init_pc, context, page, is_ready,
                   init_result>>
    /\ UNCHANGED ssOthers

\* Session.close on a session of the pool: the context is closed, is_ready
\* is cleared and page and context are set to None; the session stays in
\* SessionManager.sessions
session_close(f) ==
    /\ f \in SeqRange(sessions)
    /\ is_ready[f] \/ page[f] \/ context[f] # "none"
    /\ is_ready' = [is_ready EXCEPT ![f] = FALSE]
    /\ page' = [page EXCEPT ![f] = FALSE]
    /\ context' = [context EXCEPT ![f] = "none"]
    /\ UNCHANGED <<sessions, rr_index, init_pos, session_lock, req_pc,
                   req_session, auth_dir, files, init_pc, init_result,
                   acquired>>
    /\ UNCHANGED ssOthers

\* a wrong request path: it drives the page without taking Session.lock
request_enter_session_unlocked(r) ==
    /\ req_pc[r] = "routed"
    /\ req_pc' = [req_pc EXCEPT ![r] = "operating"]
    /\ UNCHANGED <<sessions, rr_index, init_pos, session_lock, req_session,
                   auth_dir, files, init_pc, context, page, is_ready,
                   init_result, acquired>>
    /\ UNCHANGED ssOthers

\* the request takes the lock of its session (`async with session.lock`)
\* before it drives the session's page
request_enter_session(r) ==
    /\ req_pc[r] = "routed"
    /\ session_lock[req_session[r]] = 0
    /\ session_lock' = [session_lock EXCEPT ![req_session[r]] = r]
    /\ req_pc' = [req_pc EXCEPT ![r] = "operating"]
    /\ UNCHANGED <<sessions, rr_index, init_pos, req_session,
                   auth_dir, files, init_pc, context, page, is_ready,
                   init_result, acquired>>
    /\ UNCHANGED ssOthers

\* the request is finished with the page and releases the lock
request_leave_session(r) ==
    /\ req_pc[r] = "operating"
    /\ session_lock' = [session_lock EXCEPT
                           ![req_session[r]] = IF @ = r THEN 0 ELSE @]
    /\ req_pc' = [req_pc EXCEPT ![r] = "done"]
    /\ UNCHANGED <<sessions, rr_index, init_pos, req_session,
                   auth_dir, files, init_pc, context, page, is_ready,
                   init_result, acquired>>
    /\ UNCHANGED ssOthers

\* the next request of the same client
request_again(r) ==
    /\ req_pc[r] = "done"
    /\ req_pc' = [req_pc EXCEPT ![r] = "idle"]
    /\ req_session' = [req_session EXCEPT ![r] = 0]
    /\ UNCHANGED <<sessions, rr_index, init_pos, session_lock,
                   auth_dir, files, init_pc, context, page, is_ready,
                   init_result, acquired>>
    /\ UNCHANGED ssOthers

InitOutcomes == {"page", "no_page", "raise"}

\* initialize_all and the requests of the clients
SSNext ==
    \/ initialize_all_begin
    \/ \E outcome \in InitOutcomes : initialize_page_logic_returns(outcome)
    \/ \E ok \in BOOLEAN : handle_initial_model_state_returns(ok)
    \/ \E ok \in BOOLEAN : enable_temporary_chat_mode_returns(ok)
    \/ \E r \in Requests :
          \/ acquire_session(r)
          \/ request_enter_session(r)
          \/ request_leave_session(r)
          \/ request_again(r)

\* initialize_all alone
SSInitializeNext ==
    \/ initialize_all_begin
    \/ \E outcome \in InitOutcomes : initialize_page_logic_returns(outcome)
    \/ \E ok \in BOOLEAN : handle_initial_model_state_returns(ok)
    \/ \E ok \in BOOLEAN : enable_temporary_chat_mode_returns(ok)

\* initialize_all and a caller of acquire_session
SSPoolNext ==
    \/ initialize_all_begin
    \/ \E outcome \in InitOutcomes : initialize_page_logic_returns(outcome)
    \/ \E ok \in BOOLEAN : handle_initial_model_state_returns(ok)
    \/ \E ok \in BOOLEAN : enable_temporary_chat_mode_returns(ok)
    \/ successive_acquire_session

\* initialize_all, a caller of acquire_session and callers of Session.close
SSCloseNext ==
    \/ initialize_all_begin
    \/ \E outcome \in InitOutcomes : initialize_page_logic_returns(outcome)
    \/ \E ok \in BOOLEAN : handle_initial_model_state_returns(ok)
    \/ \E ok \in BOOLEAN : enable_temporary_chat_mode_returns(ok)
    \/ successive_acquire_session
    \/ \E f \in AuthFiles : session_close(f)

(***************************************************************************)
(* AsyncTaskManager and the global instance: api_utils/task_manager.py     *)
(***************************************************************************)
Managers == 1..MaxManagers
Tasks == 1..MaxTasks
Names == {"X"}
\* name=None
NoName == "no_name"

TMInit ==
    /\ task_manager = 0
    /\ tm_created = 0
    /\ tm_tasks = [m \in Managers |-> {}]
    /\ tm_named = [m \in Managers |-> [n \in Names |-> 0]]
    /\ tm_shutting = [m \in Managers |-> FALSE]
    /\ task_state = [t \in Tasks |-> "new"]
    /\ task_name = [t \in Tasks |-> NoName]
    /\ task_mgr = [t \in Tasks |-> 0]
    /\ tm_last_create = [mgr |-> 0, result |-> "none"]
    /\ ca_pc = "idle"
    /\ ca_mgr = 0
    /\ ca_batch = {}
    /\ ca_cleanup = FALSE
    /\ cleanup_called = FALSE
    /\ cb_seen = [raised |-> FALSE, escaped |-> FALSE, tracked |-> FALSE]
    /\ ct_pc = "idle"
    /\ ct_name = NoName
    /\ ct_task = 0

\* asyncio.Task.done()
task_done(t) == task_state[t] \in {"done", "reaped"}

TasksCreated == Cardinality({t \in Tasks : task_state[t] # "new"})

\* a wrong create_task: it does not look at the shutdown flag
create_rejected_never(m) == FALSE

\* create_task: `if self._is_shutting_down: raise RuntimeError`
create_rejected(m) == tm_shutting[m]

\* a wrong create_task: the old task of the name is left running
superseded_none(m, name) == {}

\* create_task: the task create_task cancels, the unfinished holder of the name
superseded(m, name) ==
    IF name # NoName /\ tm_named[m][name] # 0 /\ ~ task_done(tm_named[m][name])
    THEN {tm_named[m][name]}
    ELSE {}

\* AsyncTaskManager.create_task on manager m.  The lock is free whenever it
\* is asked for (no holder suspends), so the call runs to its return in one
\* step
create_task(m, name) ==
    /\ create_rejected(m) \/ TasksCreated < MaxTasks
    /\ IF create_rejected(m)
       THEN /\ tm_last_create' = [mgr |-> m, result |-> "rejected"]
            /\ UNCHANGED <<tm_tasks, tm_named, task_state, task_name, task_mgr>>
       ELSE LET t == TasksCreated + 1 IN
            /\ tm_tasks' = [tm_tasks EXCEPT ![m] = @ \cup {t}]
            /\ task_state' = [u \in Tasks |->
                                IF u = t THEN "pending"
                                ELSE IF u \in superseded(m, name) THEN "cancelling"
                                ELSE task_state[u]]
            /\ tm_named' = IF name # NoName
                           THEN [tm_named EXCEPT ![m][name] = t]
                           ELSE tm_named
            /\ task_name' = [task_name EXCEPT ![t] = name]
            /\ task_mgr' = [task_mgr EXCEPT ![t] = m]
            /\ tm_last_create' = [mgr |-> m, result |-> "created"]
    /\ UNCHANGED <<tm_shutting, ca_pc, ca_mgr, ca_batch, ca_cleanup,
                   cleanup_called, cb_seen,
                   ct_pc, ct_name, ct_task>>
    /\ UNCHANGED tmOthers

\* create_managed_task: get_task_manager(), which creates the global manager
\* when there is none, then create_task on it
create_managed_task(name) ==
    LET m == IF task_manager = 0 THEN tm_created + 1 ELSE task_manager IN
    /\ task_manager = 0 => tm_created < MaxManagers
    /\ task_manager' = m
    /\ tm_created' = IF task_manager = 0 THEN m ELSE tm_created
    /\ create_task(m, name)

\* create_task on a manager the caller got from get_task_manager() earlier
held_manager_create_task(m, name) ==
    /\ m \in 1..tm_created
    /\ UNCHANGED <<task_manager, tm_created>>
    /\ create_task(m, name)

\* the task's coroutine ends: by returning, raising, or being cancelled
task_finishes(t) ==
    /\ task_state[t] \in {"pending", "cancelling"}
    /\ task_state' = [task_state EXCEPT ![t] = "done"]
    /\ UNCHANGED <<task_manager, tm_created, tm_tasks, tm_named, tm_shutting,
                   task_name, task_mgr, tm_last_create, ca_pc, ca_mgr,
                   ca_batch, ca_cleanup, cleanup_called, cb_seen,
                   ct_pc, ct_name, ct_task>>
    /\ UNCHANGED tmOthers

\* what the `callback` argument of create_task does when it is called
CallbackOutcomes == {"none", "return", "raise"}

\* a wrong task_done_callback: an Exception of the user callback is not caught
callback_exception_escapes(cb) == FALSE

\* the try/except Exception around `callback(completed_task)`
callback_exception_caught(cb) == TRUE

\* a wrong task_done_callback: the name is popped whoever holds it
holds_name_unchecked(t) == task_name[t] # NoName /\ task_mgr[t] # 0

\* if name and self._named_tasks.get(name) == completed_task
holds_name(t) ==
    /\ task_name[t] # NoName
    /\ task_mgr[t] # 0
    /\ tm_named[task_mgr[t]][task_name[t]] = t

\* task_done_callback, which the event loop calls some time after the task
\* is done: the task is removed from the set, and from the index when it is
\* the holder of its name; then the user callback, if any, is called (cb is
\* what it does).  Nothing refers to the task afterwards, and its record is
\* blanked
task_done_callback(t, cb) ==
    /\ task_state[t] = "done"
    /\ task_state' = [task_state EXCEPT ![t] = "reaped"]
    /\ tm_tasks' = [m \in Managers |->
                       IF m = task_mgr[t] THEN tm_tasks[m] \ {t} ELSE tm_tasks[m]]
    /\ tm_named' = IF holds_name(t)
                   THEN [tm_named EXCEPT ![task_mgr[t]][task_name[t]] = 0]
                   ELSE tm_named
    /\ cb_seen' =
          IF cb = "none"
          THEN cb_seen
          ELSE [raised |-> cb_seen.raised \/ cb = "raise",
                escaped |-> \/ cb_seen.escaped
                            \/ cb = "raise" /\ ~ callback_exception_caught(cb),
                tracked |-> \/ cb_seen.tracked
                            \/ \E m \in Managers :
                                  \/ t \in tm_tasks'[m]
                                  \/ \E n \in Names : tm_named'[m][n] = t]
    /\ task_name' = [task_name EXCEPT ![t] = NoName]
    /\ task_mgr' = [task_mgr EXCEPT ![t] = 0]
    /\ UNCHANGED <<task_manager, tm_created, tm_shutting,
                   tm_last_create, ca_pc, ca_mgr, ca_batch, ca_cleanup,
                   cleanup_called, ct_pc, ct_name, ct_task>>
    /\ UNCHANGED tmOthers

\* a wrong test in cancel_task: a finished task counts as cancellable
cancellable_if_registered(m, name) == tm_named[m][name] # 0

\* cancel_task: the negation of `if not task or task.done()`
cancellable(m, name) ==
    tm_named[m][name] # 0 /\ ~ task_done(tm_named[m][name])

\* AsyncTaskManager.cancel_task on manager m up to its suspension: with no
\* unfinished task under the name it returns False; otherwise it cancels the
\* task and waits for it
cancel_task_begin(m, name) ==
    /\ ct_pc = "idle"
    /\ ct_name' = name
    /\ IF cancellable(m, name)
       THEN /\ ct_task' = tm_named[m][name]
            /\ task_state' = [task_state EXCEPT ![tm_named[m][name]] = "cancelling"]
            /\ ct_pc' = "waiting"
       ELSE /\ ct_task' = 0
            /\ ct_pc' = "returned_false"
            /\ UNCHANGED task_state
    /\ UNCHANGED <<task_manager, tm_created, tm_tasks, tm_named, tm_shutting,
                   task_name, task_mgr, tm_last_create, ca_pc, ca_mgr,
                   ca_batch, ca_cleanup, cleanup_called, cb_seen>>
    /\ UNCHANGED tmOthers

\* cancel_task on the global manager
global_cancel_task(name) ==
    /\ task_manager # 0
    /\ cancel_task_begin(task_manager, name)

\* cancel_task after asyncio.wait_for: the task has settled (cancelled,
\* returned or raised an Exception), or the wait ended with the task
\* unfinished (TimeoutError, or a CancelledError of the caller, both
\* swallowed); it returns True
cancel_task_end(settled) ==
    /\ ct_pc = "waiting"
    /\ settled = task_done(ct_task)
    /\ ct_pc' = "returned_true"
    /\ UNCHANGED <<task_manager, tm_created, tm_tasks, tm_named, tm_shutting,
                   task_state, task_name, task_mgr, tm_last_create, ca_pc,
                   ca_mgr, ca_batch, ca_cleanup, cleanup_called, cb_seen,
                   ct_name, ct_task>>
    /\ UNCHANGED tmOthers

\* the caller of cancel_task goes on with the returned value
cancel_task_caller_continues ==
    /\ ct_pc \in {"returned_true", "returned_false"}
    /\ ct_pc' = "idle"
    /\ ct_name' = NoName
    /\ ct_task' = 0
    /\ UNCHANGED <<task_manager, tm_created, tm_tasks, tm_named, tm_shutting,
                   task_state, task_name, task_mgr, tm_last_create, ca_pc,
                   ca_mgr, ca_batch, ca_cleanup, cleanup_called, cb_seen>>
    /\ UNCHANGED tmOthers

\* cancel_all_tasks up to its suspension: the flag, tasks_to_cancel, the
\* early return or the cancel() calls.  via_cleanup: the call is made by
\* cleanup_global_tasks, which sets _task_manager = None when it returns
cancel_all_tasks_begin(m, via_cleanup) ==
    /\ ca_pc = "idle"
    /\ m \in 1..tm_created
    /\ tm_shutting' = [tm_shutting EXCEPT ![m] = TRUE]
    /\ ca_mgr' = m
    /\ ca_cleanup' = via_cleanup
    /\ cleanup_called' = (cleanup_called \/ via_cleanup)
    /\ LET tasks_to_cancel == {t \in tm_tasks[m] : ~ task_done(t)} IN
       /\ ca_batch' = tasks_to_cancel
       /\ IF tasks_to_cancel = {}
          THEN /\ ca_pc' = "returned"
               /\ task_manager' = IF via_cleanup THEN 0 ELSE task_manager
               /\ UNCHANGED task_state
          ELSE /\ ca_pc' = "waiting"
               /\ task_state' = [t \in Tasks |->
                                    IF t \in tasks_to_cancel
                                    THEN "cancelling" ELSE task_state[t]]
               /\ UNCHANGED task_manager
    /\ UNCHANGED <<tm_created, tm_tasks, tm_named, task_name, task_mgr,
                   tm_last_create, cb_seen,
                   ct_pc, ct_name, ct_task>>
    /\ UNCHANGED tmOthers

\* cleanup_global_tasks (also the body of the shutdown handler
\* cleanup_async_tasks); with no global manager it does nothing
cleanup_global_tasks ==
    /\ task_manager # 0
    /\ cancel_all_tasks_begin(task_manager, TRUE)

\* cancel_all_tasks after the wait: the batch has settled, or the timeout
\* has passed with a task of the batch unfinished; both sets are cleared.
\* The manager is closed and no longer refers to the cleared tasks, so their
\* task_done_callback finds nothing to remove: their records are blanked
cancel_all_tasks_end(timed_out) ==
    /\ ca_pc = "waiting"
    /\ timed_out = (\E t \in ca_batch : ~ task_done(t))
    /\ tm_tasks' = [tm_tasks EXCEPT ![ca_mgr] = {}]
    /\ tm_named' = [tm_named EXCEPT ![ca_mgr] = [n \in Names |-> 0]]
    /\ ca_pc' = "returned"
    /\ task_manager' = IF ca_cleanup THEN 0 ELSE task_manager
    /\ task_name' = [t \in Tasks |->
                        IF t \in tm_tasks[ca_mgr] THEN NoName ELSE task_name[t]]
    /\ task_mgr' = [t \in Tasks |->
                       IF t \in tm_tasks[ca_mgr] THEN 0 ELSE task_mgr[t]]
    /\ UNCHANGED <<tm_created, tm_shutting, task_state,
                   tm_last_create, ca_mgr, ca_batch, ca_cleanup,
                   cleanup_called, cb_seen,
                   ct_pc, ct_name, ct_task>>
    /\ UNCHANGED tmOthers

\* the caller of cancel_all_tasks goes on; a later call may follow
cancel_all_tasks_caller_continues ==
    /\ ca_pc = "returned"
    /\ ca_pc' = "idle"
    /\ ca_mgr' = 0
    /\ ca_batch' = {}
    /\ ca_cleanup' = FALSE
    /\ UNCHANGED <<task_manager, tm_created, tm_tasks, tm_named, tm_shutting,
                   task_state, task_name, task_mgr, tm_last_create,
                   cleanup_called, cb_seen,
                   ct_pc, ct_name, ct_task>>
    /\ UNCHANGED tmOthers

TMNext ==
    \/ \E n \in Names \cup {NoName} : create_managed_task(n)
    \/ \E m \in Managers, n \in Names \cup {NoName} :
          held_manager_create_task(m, n)
    \/ \E t \in Tasks : task_finishes(t)
    \/ \E t \in Tasks, cb \in CallbackOutcomes : task_done_callback(t, cb)
    \/ \E m \in Managers : cancel_all_tasks_begin(m, FALSE)
    \/ cleanup_global_tasks
    \/ \E timed_out \in BOOLEAN : cancel_all_tasks_end(timed_out)
    \/ cancel_all_tasks_caller_continues

\* the same without create_task calls on a manager held from earlier: every
\* task is submitted through create_managed_task
TMLifecycleNext ==
    \/ \E n \in Names \cup {NoName} : create_managed_task(n)
    \/ \E t \in Tasks : task_finishes(t)
    \/ \E t \in Tasks, cb \in CallbackOutcomes : task_done_callback(t, cb)
    \/ \E m \in Managers : cancel_all_tasks_begin(m, FALSE)
    \/ cleanup_global_tasks
    \/ \E timed_out \in BOOLEAN : cancel_all_tasks_end(timed_out)
    \/ cancel_all_tasks_caller_continues

\* tasks submitted through create_managed_task, and one caller at a time
\* cancelling them by name with cancel_task
TMCancelNext ==
    \/ \E n \in Names \cup {NoName} : create_managed_task(n)
    \/ \E t \in Tasks : task_finishes(t)
    \/ \E t \in Tasks, cb \in CallbackOutcomes : task_done_callback(t, cb)
    \/ \E n \in Names : global_cancel_task(n)
    \/ \E settled \in BOOLEAN : cancel_task_end(settled)
    \/ cancel_task_caller_continues

(***************************************************************************)
(* setup_disconnect_monitoring: api_utils/client_connection.py             *)
(* One request's monitor.  Each pass of check_disconnect_periodically      *)
(* reads the active probe (test_client_connection), then the passive       *)
(* transport flag (http_request.is_disconnected), then sleeps.             *)
(***************************************************************************)
disconnect_threshold == 5

Paths == {"active", "passive"}

\* what one read of a path reports about the client
Signals == {"connected", "gone"}

\* a signal as the monitor read it
Signal(path, sig) == [path |-> path, sig |-> sig]

\* the latest disconnect_threshold signals, the new one last
Observed(path, sig) ==
    LET all == Append(lm_signals, Signal(path, sig)) IN
    IF Len(all) > disconnect_threshold THEN Tail(all) ELSE all

LMInit ==
    /\ disconnect_count = 0
    /\ client_disconnected_event = FALSE
    /\ result_future = "pending"
    /\ lm_pc = "probe"
    /\ lm_exit = "none"
    /\ lm_signals = << >>
    /\ lm_last = [p \in Paths |-> "none"]
    /\ lm_invalid_state = FALSE
    /\ lm_cancelled = 0

\* disconnect_count after a signal, with the reset on a positive one removed
count_after_no_reset(sig, count) == IF sig = "gone" THEN count + 1 ELSE count

\* disconnect_count after a signal: += 1 on a negative one, = 0 on a positive one
count_after(sig, count) == IF sig = "gone" THEN count + 1 ELSE 0

\* result_future.done(), as if it were never true
future_done_ignored == FALSE

\* result_future.done()
future_done == result_future # "pending"

\* if not result_future.done(): result_future.set_exception(...); on a
\* future that is done set_exception raises InvalidStateError
set_exception_if_pending(exc) ==
    IF future_done
    THEN UNCHANGED <<result_future, lm_invalid_state>>
    ELSE IF result_future = "pending"
         THEN result_future' = exc /\ UNCHANGED lm_invalid_state
         ELSE lm_invalid_state' = TRUE /\ UNCHANGED result_future

\* one detection path has read a signal: count it, and at the threshold set
\* the event, resolve the future and leave the loop; otherwise go on to next_pc
signal_read(path, sig, next_pc) ==
    /\ disconnect_count' = count_after(sig, disconnect_count)
    /\ lm_signals' = Observed(path, sig)
    /\ lm_last' = [lm_last EXCEPT ![path] = sig]
    /\ IF sig = "gone" /\ disconnect_count' >= disconnect_threshold
       THEN /\ client_disconnected_event' = TRUE
            /\ set_exception_if_pending("exc_499")
            /\ lm_pc' = "exited"
            /\ lm_exit' = path
       ELSE /\ lm_pc' = next_pc
            /\ UNCHANGED <<client_disconnected_event, result_future,
                           lm_invalid_state, lm_exit>>

\* await test_client_connection(...) returns: False for a disconnect
\* message or an exception inside the probe, True otherwise
test_client_connection_returns(sig) ==
    /\ lm_pc = "probe"
    /\ signal_read("active", sig, "passive")
    /\ UNCHANGED lm_cancelled
    /\ UNCHANGED lmOthers

\* disconnect_check_task.cancel() takes effect while the probe is at
\* `await receive_task` on the receive it has just cancelled: the
\* CancelledError is met by the probe's own `except asyncio.CancelledError:
\* pass`, the probe returns True, and the loop goes on
test_client_connection_swallows_cancel ==
    /\ lm_pc = "probe"
    /\ lm_cancelled < MaxCancels
    /\ lm_cancelled' = lm_cancelled + 1
    /\ signal_read("active", "connected", "passive")
    /\ UNCHANGED lmOthers

\* await http_request.is_disconnected() returns
is_disconnected_returns(sig) ==
    /\ lm_pc = "passive"
    /\ signal_read("passive", sig, "sleep")
    /\ UNCHANGED lm_cancelled
    /\ UNCHANGED lmOthers

\* a wrong `except Exception` branch: the error is logged and the flag is
\* left as it is
error_sets_event_never == FALSE

\* except Exception: client_disconnected_event.set()
error_sets_event == TRUE

\* await http_request.is_disconnected() raises: except Exception
is_disconnected_raises ==
    /\ lm_pc = "passive"
    /\ client_disconnected_event' = (client_disconnected_event \/ error_sets_event)
    /\ set_exception_if_pending("exc_500")
    /\ lm_pc' = "exited"
    /\ lm_exit' = "error"
    /\ UNCHANGED <<disconnect_count, lm_signals, lm_last, lm_cancelled>>
    /\ UNCHANGED lmOthers

\* await asyncio.sleep(0.3) returns and the while condition is tested
sleep_returns ==
    /\ lm_pc = "sleep"
    /\ IF client_disconnected_event
       THEN lm_pc' = "exited" /\ lm_exit' = "event"
       ELSE lm_pc' = "probe" /\ UNCHANGED lm_exit
    /\ UNCHANGED <<disconnect_count, client_disconnected_event, result_future,
                   lm_signals, lm_last, lm_invalid_state, lm_cancelled>>
    /\ UNCHANGED lmOthers

\* disconnect_check_task.cancel() takes effect at the pending await:
\* except asyncio.CancelledError: break
check_disconnect_cancelled ==
    /\ lm_pc # "exited"
    /\ lm_cancelled < MaxCancels
    /\ lm_cancelled' = lm_cancelled + 1
    /\ lm_pc' = "exited"
    /\ lm_exit' = "cancelled"
    /\ UNCHANGED <<disconnect_count, client_disconnected_event, result_future,
                   lm_signals, lm_last, lm_invalid_state>>
    /\ UNCHANGED lmOthers

\* the request's own processing produces the result
result_produced ==
    /\ result_future = "pending"
    /\ result_future' = "result"
    /\ UNCHANGED <<disconnect_count, client_disconnected_event, lm_pc,
                   lm_exit, lm_signals, lm_last, lm_invalid_state,
                   lm_cancelled>>
    /\ UNCHANGED lmOthers

\* one step of the poll loop
check_disconnect_periodically ==
    \/ \E sig \in Signals : test_client_connection_returns(sig)
    \/ \E sig \in Signals : is_disconnected_returns(sig)
    \/ is_disconnected_raises
    \/ sleep_returns

LMNext ==
    \/ \E sig \in Signals : test_client_connection_returns(sig)
    \/ \E sig \in Signals : is_disconnected_returns(sig)
    \/ is_disconnected_raises
    \/ sleep_returns
    \/ check_disconnect_cancelled
    \/ test_client_connection_swallows_cancel
    \/ result_produced

(***************************************************************************)
(* GlobalStateManager and the global instances: api_utils/state_manager.py *)
(* with get_model_manager (model_manager.py) and get_state_proxy           *)
(* (state_migration.py).  Every method of the store runs inside            *)
(* `async with self._state_lock`; set_browser_instance awaits while it     *)
(* holds the lock, so the other methods can find the lock taken.           *)
(***************************************************************************)
Stores == 1..MaxStores
Writers == 1..NumWriters
Readers == 1..NumReaders

\* the instance the callers of the store methods hold
Store == 1

\* Python's None for a model id
None == 0

\* the contents the caller's list object can have
ArgLists == {<< >>, <<1>>, <<2, 1>>}

\* a wrong set_model_list: the store keeps the caller's list object
list_shared(items) == [ref |-> "arg", items |-> items]

\* model_list.copy(): a list object of the store's own
list_copy(items) == [ref |-> "own", items |-> items]

\* GlobalStateManager.__init__
FreshStore ==
    [current_ai_studio_model_id |-> None,
     parsed_model_list |-> list_copy(<< >>),
     excluded_model_ids |-> {},
     model_list_fetch_event |-> FALSE,
     playwright_manager |-> FALSE,
     browser_instance |-> FALSE,
     page_instance |-> FALSE,
     is_playwright_ready |-> FALSE,
     is_browser_connected |-> FALSE,
     is_page_ready |-> FALSE,
     is_initializing |-> FALSE,
     page_params_cache |-> {},
     request_queue |-> FALSE]

STInit ==
    /\ stores = [s \in Stores |-> FreshStore]
    /\ state_lock = [s \in Stores |-> << >>]
    /\ state_manager = 0
    /\ st_created = 0
    /\ model_manager = 0
    /\ state_proxy = 0
    /\ arg_list = << >>
    /\ st_last_op = "none"
    /\ set_list_calls = 0
    /\ fetch_event_sets = 0
    /\ wr_pc = [w \in Writers |-> "idle"]
    /\ rd_pc = [r \in Readers |-> "idle"]
    /\ rd_result = [r \in Readers |-> None]
    /\ rd_expected = [r \in Readers |-> None]
    /\ st_completed = None
    /\ bi_pc = "idle"
    /\ co_pc = [w \in Writers |-> "idle"]
    /\ params_cache_lock = 0

\* a wrong store: its methods do not wait for _state_lock
state_lock_free_always(s) == TRUE

\* a wrong `async with self._state_lock`: the lock is not released at the
\* end of the block
state_lock_exit_kept(s) == state_lock[s]

\* the end of `async with self._state_lock`: the lock is released
state_lock_exit(s) == << >>

\* `async with self._state_lock` can be entered
state_lock_free(s) == state_lock[s] = << >>

\* what get_model_list returns: the contents of the list object the store
\* holds
catalog(s) ==
    IF stores[s].parsed_model_list.ref = "arg"
    THEN arg_list
    ELSE stores[s].parsed_model_list.items

\* set_current_model_id(w's model id) enters `async with self._state_lock`
set_current_model_id_enter(w) ==
    /\ wr_pc[w] = "idle"
    /\ state_lock_free(Store)
    /\ state_lock' = [state_lock EXCEPT ![Store] = <<"writer", w>>]
    /\ wr_pc' = [wr_pc EXCEPT ![w] = "locked"]
    /\ UNCHANGED <<stores, stSingletons, stList, st_last_op, rd_pc, rd_result,
                   rd_expected, st_completed, bi_pc>>
    /\ UNCHANGED stCache
    /\ UNCHANGED stOthers

\* self._current_ai_studio_model_id = model_id
set_current_model_id_write(w) ==
    /\ wr_pc[w] = "locked"
    /\ stores' = [stores EXCEPT ![Store].current_ai_studio_model_id = w]
    /\ st_last_op' = "set_current_model_id"
    /\ wr_pc' = [wr_pc EXCEPT ![w] = "written"]
    /\ UNCHANGED <<state_lock, stSingletons, stList, rd_pc, rd_result,
                   rd_expected, st_completed, bi_pc>>
    /\ UNCHANGED stCache
    /\ UNCHANGED stOthers

\* set_current_model_id leaves the lock and returns: the write is complete
set_current_model_id_exit(w) ==
    /\ wr_pc[w] = "written"
    /\ state_lock' = [state_lock EXCEPT ![Store] = << >>]
    /\ st_completed' = w
    /\ wr_pc' = [wr_pc EXCEPT ![w] = "done"]
    /\ UNCHANGED <<stores, stSingletons, stList, st_last_op, rd_pc, rd_result,
                   rd_expected, bi_pc>>
    /\ UNCHANGED stCache
    /\ UNCHANGED stOthers

\* get_current_model_id enters `async with self._state_lock`
get_current_model_id_enter(r) ==
    /\ rd_pc[r] = "idle"
    /\ state_lock_free(Store)
    /\ state_lock' = [state_lock EXCEPT ![Store] = <<"reader", r>>]
    /\ rd_pc' = [rd_pc EXCEPT ![r] = "locked"]
    /\ UNCHANGED <<stores, stSingletons, stList, st_last_op, wr_pc, rd_result,
                   rd_expected, st_completed, bi_pc>>
    /\ UNCHANGED stCache
    /\ UNCHANGED stOthers

\* return self._current_ai_studio_model_id; rd_expected keeps the value of
\* the latest write that was complete at this read
get_current_model_id_return(r) ==
    /\ rd_pc[r] = "locked"
    /\ rd_result' = [rd_result EXCEPT ![r] = stores[Store].current_ai_studio_model_id]
    /\ rd_expected' = [rd_expected EXCEPT ![r] = st_completed]
    /\ state_lock' = [state_lock EXCEPT ![Store] = << >>]
    /\ rd_pc' = [rd_pc EXCEPT ![r] = "done"]
    /\ UNCHANGED <<stores, stSingletons, stList, st_last_op, wr_pc,
                   st_completed, bi_pc>>
    /\ UNCHANGED stCache
    /\ UNCHANGED stOthers

\* set_browser_instance(browser) takes the lock and awaits
\* browser.is_connected() while it holds it
set_browser_instance_begin ==
    /\ bi_pc = "idle"
    /\ state_lock_free(Store)
    /\ state_lock' = [state_lock EXCEPT ![Store] = <<"browser", 0>>]
    /\ stores' = [stores EXCEPT ![Store].browser_instance = TRUE]
    /\ bi_pc' = "awaiting"
    /\ UNCHANGED <<stSingletons, stList, st_last_op, wr_pc, rd_pc,
                   rd_result, rd_expected, st_completed>>
    /\ UNCHANGED stCache
    /\ UNCHANGED stOthers

\* is_connected() returns, or raises an Exception (connected = FALSE)
set_browser_instance_end(connected) ==
    /\ bi_pc = "awaiting"
    /\ stores' = [stores EXCEPT ![Store].is_browser_connected = connected]
    /\ st_last_op' = "set_browser_instance"
    /\ state_lock' = [state_lock EXCEPT ![Store] = state_lock_exit(Store)]
    /\ bi_pc' = "done"
    /\ UNCHANGED <<stSingletons, stList, wr_pc, rd_pc, rd_result, rd_expected,
                   st_completed>>
    /\ UNCHANGED stCache
    /\ UNCHANGED stOthers

\* if not self._model_list_fetch_event.is_set()
fetch_event_set_needed(s) == ~ stores[s].model_list_fetch_event

\* set_model_list(model_list), called with the caller's list object
set_model_list ==
    /\ state_lock_free(Store)
    /\ stores' = [stores EXCEPT ![Store].parsed_model_list = list_copy(arg_list),
                                ![Store].model_list_fetch_event = TRUE]
    /\ fetch_event_sets' = IF fetch_event_set_needed(Store) /\ fetch_event_sets < 2
                           THEN fetch_event_sets + 1 ELSE fetch_event_sets
    /\ set_list_calls' = IF set_list_calls < 2 THEN set_list_calls + 1
                                               ELSE set_list_calls
    /\ st_last_op' = "set_model_list"
    /\ UNCHANGED <<state_lock, stSingletons, arg_list, stCalls>>
    /\ UNCHANGED stCache
    /\ UNCHANGED stOthers

\* the caller changes the list object it passed to set_model_list
caller_changes_list(items) ==
    /\ items # arg_list
    /\ arg_list' = items
    /\ UNCHANGED <<stores, state_lock, stSingletons, set_list_calls,
                   fetch_event_sets, st_last_op, stCalls>>
    /\ UNCHANGED stCache
    /\ UNCHANGED stOthers

\* a method of the store that writes one field under the lock
store_field_set(op, s2) ==
    /\ state_lock_free(Store)
    /\ stores' = [stores EXCEPT ![Store] = s2]
    /\ st_last_op' = op
    /\ UNCHANGED <<state_lock, stSingletons, stList, stCalls>>
    /\ UNCHANGED stCache
    /\ UNCHANGED stOthers

\* set_excluded_model_ids(excluded_ids)
set_excluded_model_ids(ids) ==
    store_field_set("set_excluded_model_ids",
                    [stores[Store] EXCEPT !.excluded_model_ids = ids])

\* the is_ready argument of set_page_instance; "None" is its default
ReadyArgs == {"None", "True", "False"}

\* set_page_instance(page, is_ready): page is TRUE for a page object, FALSE
\* for None
set_page_instance(page_arg, ready) ==
    store_field_set("set_page_instance",
                    [stores[Store] EXCEPT
                        !.page_instance = page_arg,
                        !.is_page_ready = IF ready # "None" THEN ready = "True"
                                                           ELSE page_arg])

\* set_playwright_manager(manager): manager is TRUE for an object, FALSE
\* for None
set_playwright_manager(manager) ==
    store_field_set("set_playwright_manager",
                    [stores[Store] EXCEPT !.playwright_manager = manager,
                                          !.is_playwright_ready = manager])

\* set_browser_instance(browser) with a browser whose is_connected() is an
\* ordinary method, or with None: nothing is awaited; is_connected()
\* returns connected, or raises (connected = FALSE)
set_browser_instance_sync(browser, connected) ==
    store_field_set("set_browser_instance",
                    [stores[Store] EXCEPT
                        !.browser_instance = browser,
                        !.is_browser_connected = browser /\ connected])

\* what is_ready() returns
is_ready_result(s) ==
    /\ stores[s].is_playwright_ready
    /\ stores[s].is_browser_connected
    /\ stores[s].is_page_ready
    /\ ~ stores[s].is_initializing

\* set_initializing(initializing)
set_initializing(initializing) ==
    store_field_set("set_initializing",
                    [stores[Store] EXCEPT !.is_initializing = initializing])

\* initialize_locks_and_queues: the queue and the three locks are made
initialize_locks_and_queues ==
    store_field_set("initialize_locks_and_queues",
                    [stores[Store] EXCEPT !.request_queue = TRUE])

\* set_cache_value(key, value): it goes through the cache lock, if made,
\* and not through _state_lock
set_cache_value(key) ==
    /\ stores' = [stores EXCEPT ![Store].page_params_cache = @ \cup {key}]
    /\ st_last_op' = "set_cache_value"
    /\ UNCHANGED <<state_lock, stSingletons, stList, stCalls>>
    /\ UNCHANGED stCache
    /\ UNCHANGED stOthers

\* self._params_cache_lock is not None: initialize_locks_and_queues, which
\* makes the queue and the locks together, has run
params_cache_lock_made(s) == stores[s].request_queue

\* cache_operation() is entered by coroutine w: get_params_cache_lock reads
\* the cache lock inside _state_lock and releases _state_lock; with no
\* cache lock the block is entered at once, with a cache lock it is entered
\* when the cache lock is free, else the coroutine waits for it
cache_operation_enter(w) ==
    /\ co_pc[w] = "idle"
    /\ state_lock_free(Store)
    /\ IF params_cache_lock_made(Store) /\ params_cache_lock # 0
       THEN /\ co_pc' = [co_pc EXCEPT ![w] = "waiting"]
            /\ UNCHANGED params_cache_lock
       ELSE /\ co_pc' = [co_pc EXCEPT ![w] = "inside"]
            /\ params_cache_lock' = IF params_cache_lock_made(Store) THEN w
                                                                    ELSE 0
    /\ UNCHANGED <<stores, state_lock, stSingletons, stList, st_last_op,
                   stCalls>>
    /\ UNCHANGED stOthers

\* the cache lock the coroutine waits for is free: `async with cache_lock`
\* is entered
cache_operation_locked(w) ==
    /\ co_pc[w] = "waiting"
    /\ params_cache_lock = 0
    /\ params_cache_lock' = w
    /\ co_pc' = [co_pc EXCEPT ![w] = "inside"]
    /\ UNCHANGED <<stores, state_lock, stSingletons, stList, st_last_op,
                   stCalls>>
    /\ UNCHANGED stOthers

\* the block under cache_operation() has put a value under key and ends;
\* the cache lock, if this coroutine holds it, is released
cache_operation_exit(w, key) ==
    /\ co_pc[w] = "inside"
    /\ stores' = [stores EXCEPT ![Store].page_params_cache = @ \cup {key}]
    /\ st_last_op' = "cache_operation"
    /\ params_cache_lock' = IF params_cache_lock = w THEN 0
                                                     ELSE params_cache_lock
    /\ co_pc' = [co_pc EXCEPT ![w] = "idle"]
    /\ UNCHANGED <<state_lock, stSingletons, stList, stCalls>>
    /\ UNCHANGED stOthers

\* the fields of a store after the assignments of reset_all_state
reset_fields(s) ==
    [stores[s] EXCEPT !.current_ai_studio_model_id = None,
                      !.parsed_model_list = list_copy(<< >>),
                      !.excluded_model_ids = {},
                      !.playwright_manager = FALSE,
                      !.browser_instance = FALSE,
                      !.page_instance = FALSE,
                      !.is_playwright_ready = FALSE,
                      !.is_browser_connected = FALSE,
                      !.is_page_ready = FALSE,
                      !.is_initializing = FALSE,
                      !.page_params_cache = {}]

\* GlobalStateManager.reset_all_state
reset_all_state ==
    store_field_set("reset_all_state", reset_fields(Store))

\* what get_state_manager() returns: the global instance, or a new one made
\* when _state_manager is None
state_manager_got == IF state_manager = 0 THEN st_created + 1 ELSE state_manager

\* get_state_manager()
get_state_manager_called ==
    /\ state_manager = 0 => st_created < MaxStores
    /\ state_manager' = state_manager_got
    /\ st_created' = IF state_manager = 0 THEN st_created + 1 ELSE st_created

\* a direct caller: get_state_manager()
get_state_manager ==
    /\ get_state_manager_called
    /\ UNCHANGED <<stores, state_lock, model_manager, state_proxy, stList,
                   st_last_op, stCalls>>
    /\ UNCHANGED stCache
    /\ UNCHANGED stOthers

\* get_model_manager(): the first call makes the ModelManager, whose
\* __init__ keeps get_state_manager() in self._state_manager
get_model_manager ==
    /\ IF model_manager = 0
       THEN /\ get_state_manager_called
            /\ model_manager' = state_manager_got
       ELSE UNCHANGED <<state_manager, st_created, model_manager>>
    /\ UNCHANGED <<stores, state_lock, state_proxy, stList, st_last_op, stCalls>>
    /\ UNCHANGED stCache
    /\ UNCHANGED stOthers

\* get_state_proxy(): the first call makes the StateProxy, whose __init__
\* keeps get_state_manager() in self._state_manager
get_state_proxy ==
    /\ IF state_proxy = 0
       THEN /\ get_state_manager_called
            /\ state_proxy' = state_manager_got
       ELSE UNCHANGED <<state_manager, st_created, state_proxy>>
    /\ UNCHANGED <<stores, state_lock, model_manager, stList, st_last_op, stCalls>>
    /\ UNCHANGED stCache
    /\ UNCHANGED stOthers

\* set_current_model_id(model_id) on the instance s, as one step
instance_set_current_model_id(s, model_id) ==
    /\ state_lock_free(s)
    /\ stores' = [stores EXCEPT ![s].current_ai_studio_model_id = model_id]
    /\ st_last_op' = "set_current_model_id"
    /\ UNCHANGED <<state_lock, stSingletons, stList, stCalls>>
    /\ UNCHANGED stCache
    /\ UNCHANGED stOthers

\* await get_state_manager().set_current_model_id(model_id), the global
\* instance being there
direct_set_current_model_id(model_id) ==
    /\ state_manager # 0
    /\ instance_set_current_model_id(state_manager, model_id)

\* get_model_manager().set_current_model_from_page(model_id), the
\* ModelManager being there
manager_set_current_model_id(model_id) ==
    /\ model_manager # 0
    /\ instance_set_current_model_id(model_manager, model_id)

\* get_state_proxy().current_ai_studio_model_id = model_id, the StateProxy
\* being there
proxy_set_current_model_id(model_id) ==
    /\ state_proxy # 0
    /\ instance_set_current_model_id(state_proxy, model_id)

\* reset_global_state(): reset_all_state on the global instance, then
\* _state_manager = None
reset_global_state ==
    /\ state_manager # 0
    /\ state_lock_free(state_manager)
    /\ stores' = [stores EXCEPT ![state_manager] = reset_fields(state_manager)]
    /\ state_manager' = 0
    /\ st_last_op' = "reset_global_state"
    /\ UNCHANGED <<state_lock, st_created, model_manager, state_proxy, stList,
                   stCalls>>
    /\ UNCHANGED stCache
    /\ UNCHANGED stOthers

\* concurrent writers and readers of the model id, and set_browser_instance
STNext ==
    \/ \E w \in Writers :
          \/ set_current_model_id_enter(w)
          \/ set_current_model_id_write(w)
          \/ set_current_model_id_exit(w)
    \/ \E r \in Readers :
          \/ get_current_model_id_enter(r)
          \/ get_current_model_id_return(r)
    \/ set_browser_instance_begin
    \/ \E connected \in BOOLEAN : set_browser_instance_end(connected)

\* the setters of one store and reset_all_state
STResetNext ==
    \/ \E w \in Writers :
          \/ set_current_model_id_enter(w)
          \/ set_current_model_id_write(w)
          \/ set_current_model_id_exit(w)
    \/ set_model_list
    \/ \E items \in ArgLists : caller_changes_list(items)
    \/ \E ids \in {{}, {1}} : set_excluded_model_ids(ids)
    \/ \E page_arg \in BOOLEAN : set_page_instance(page_arg, "None")
    \/ \E initializing \in BOOLEAN : set_initializing(initializing)
    \/ initialize_locks_and_queues
    \/ set_cache_value("k")
    \/ reset_all_state

\* the cache of one store under concurrent cache_operation blocks, with
\* set_browser_instance and initialize_locks_and_queues
STCacheNext ==
    \/ \E w \in Writers :
          \/ cache_operation_enter(w)
          \/ cache_operation_locked(w)
          \/ \E key \in {"k1", "k2"} : cache_operation_exit(w, key)
    \/ initialize_locks_and_queues
    \/ set_browser_instance_begin
    \/ \E connected \in BOOLEAN : set_browser_instance_end(connected)

\* the setters of the handles and of the readiness flags
STReadyNext ==
    \/ \E manager \in BOOLEAN : set_playwright_manager(manager)
    \/ \E browser, connected \in BOOLEAN :
          set_browser_instance_sync(browser, connected)
    \/ set_browser_instance_begin
    \/ \E connected \in BOOLEAN : set_browser_instance_end(connected)
    \/ \E page_arg \in BOOLEAN, ready \in ReadyArgs :
          set_page_instance(page_arg, ready)
    \/ \E initializing \in BOOLEAN : set_initializing(initializing)
    \/ reset_all_state

\* the accessors of the global instances and reset_global_state
STSingletonNext ==
    \/ get_state_manager
    \/ get_model_manager
    \/ get_state_proxy
    \/ \E id \in Writers : direct_set_current_model_id(id)
    \/ \E id \in Writers : manager_set_current_model_id(id)
    \/ \E id \in Writers : proxy_set_current_model_id(id)
    \/ reset_global_state

(***************************************************************************)
(* BrowserResourceManager: browser_utils/resource_manager.py               *)
(* Users run one `async with create_context()` or `async with              *)
(* create_page()` block each; the context and the page of user u are       *)
(* called u.  One more caller, the manager caller, calls set_browser and   *)
(* close_all.  _close_page_safe and _close_context_safe are the same code  *)
(* for the block exits and for _close_browser_internal; both enter         *)
(* `async with self._lock`, an asyncio.Lock, which has no owner and is     *)
(* not re-entrant.                                                         *)
(***************************************************************************)
Users == 1..NumUsers
Browsers == 1..MaxBrowsers

\* the caller of set_browser and close_all
ManagerCaller == 0
Callers == {ManagerCaller} \cup Users

BlockKinds == {"create_context", "create_page"}

\* BrowserResourceManager.__init__
RMInit ==
    /\ rm_browser = 0
    /\ br_connected = [b \in Browsers |-> FALSE]
    /\ rm_contexts = {}
    /\ rm_pages = {}
    /\ rm_lock = "free"
    /\ rm_is_shutting_down = FALSE
    /\ ctx_state = [u \in Users |-> "none"]
    /\ page_state = [u \in Users |-> "none"]
    /\ rc_pc = [c \in Callers |-> "idle"]
    /\ us_kind = [u \in Users |-> "none"]
    /\ us_exc = [u \in Users |-> FALSE]
    /\ us_result = [u \in Users |-> "none"]
    /\ mc_op = "none"
    /\ mc_new = 0
    /\ mc_target = 0
    /\ mc_pages = {}
    /\ mc_contexts = {}
    /\ sb_count = 0

\* `async with self._lock` can be entered
rm_lock_free == rm_lock = "free"

\* self._browser and self._browser.is_connected()
browser_connected == rm_browser # 0 /\ br_connected[rm_browser]

\* the manager caller's variables, and the users'
mcVars == <<mc_op, mc_new, mc_target, mc_pages, mc_contexts>>
usVars == <<us_kind, us_exc, us_result>>

\* the page or context a caller is closing
target(c) == IF c = ManagerCaller THEN mc_target ELSE c

Least(S) == CHOOSE e \in S : \A d \in S : e <= d

\* where _close_browser_internal goes on after the unit it has finished:
\* the next page of pages_to_close; after the pages the first context of
\* contexts_to_close, a copy of _contexts made at that moment; after the
\* contexts the browser, if it is connected; then the finally clause
internal_next(phase, todo_pages, todo_contexts, contexts_now) ==
    LET cs == IF phase = "pages" THEN contexts_now ELSE todo_contexts IN
    IF phase = "pages" /\ todo_pages # {}
    THEN [pc |-> "untrack_page", target |-> Least(todo_pages),
          pages |-> todo_pages \ {Least(todo_pages)}, contexts |-> {}]
    ELSE IF phase \in {"pages", "contexts"} /\ cs # {}
    THEN [pc |-> "untrack_context", target |-> Least(cs),
          pages |-> {}, contexts |-> cs \ {Least(cs)}]
    ELSE IF phase # "browser" /\ browser_connected
    THEN [pc |-> "close_browser", target |-> 0, pages |-> {}, contexts |-> {}]
    ELSE [pc |-> "finally", target |-> 0, pages |-> {}, contexts |-> {}]

\* the manager caller goes on inside _close_browser_internal, called by op
\* (set_browser with the browser new, or close_all), the tracking sets
\* being pages_now and contexts_now.  The finally clause sets _browser to
\* None and clears the sets; then set_browser installs the new browser and
\* leaves its `async with self._lock`, and close_all clears the flag.
close_browser_internal(op, new, phase, todo_pages, todo_contexts,
                       pages_now, contexts_now) ==
    LET n == internal_next(phase, todo_pages, todo_contexts, contexts_now) IN
    IF n.pc = "finally"
    THEN /\ rm_browser' = IF op = "set_browser" THEN new ELSE 0
         /\ rm_contexts' = {}
         /\ rm_pages' = {}
         /\ rm_lock' = "free"
         /\ rm_is_shutting_down' = FALSE
         /\ rc_pc' = [rc_pc EXCEPT ![ManagerCaller] = "idle"]
         /\ mc_op' = "none"
         /\ mc_new' = 0
         /\ mc_target' = 0
         /\ mc_pages' = {}
         /\ mc_contexts' = {}
    ELSE /\ rm_contexts' = contexts_now
         /\ rm_pages' = pages_now
         /\ rm_lock' = IF op = "set_browser" THEN "set_browser" ELSE "free"
         /\ rm_is_shutting_down' = (op = "close_all")
         /\ rc_pc' = [rc_pc EXCEPT ![ManagerCaller] = n.pc]
         /\ mc_op' = op
         /\ mc_new' = new
         /\ mc_target' = n.target
         /\ mc_pages' = n.pages
         /\ mc_contexts' = n.contexts
         /\ UNCHANGED rm_browser

\* set_browser(browser) with a newly launched browser b: inside
\* `async with self._lock`, a connected old browser is closed by
\* _close_browser_internal first; otherwise the new one is installed at once
set_browser(b) ==
    /\ rc_pc[ManagerCaller] = "idle"
    /\ rm_lock_free
    /\ sb_count < MaxBrowsers
    /\ b = sb_count + 1
    /\ sb_count' = sb_count + 1
    /\ br_connected' = [br_connected EXCEPT ![b] = TRUE]
    /\ IF browser_connected
       THEN close_browser_internal("set_browser", b, "pages", rm_pages, {},
                                   rm_pages, rm_contexts)
       ELSE /\ rm_browser' = b
            /\ UNCHANGED <<rm_contexts, rm_pages, rm_lock, rm_is_shutting_down,
                           rc_pc, mcVars>>
    /\ UNCHANGED <<ctx_state, page_state, usVars>>
    /\ UNCHANGED rmOthers

\* close_all(): the flag is set inside the lock, the lock is left, and
\* _close_browser_internal is called; with no browser it returns at once
close_all ==
    /\ rc_pc[ManagerCaller] = "idle"
    /\ rm_lock_free
    /\ ~ rm_is_shutting_down
    /\ rm_browser # 0
    /\ close_browser_internal("close_all", 0, "pages", rm_pages, {},
                              rm_pages, rm_contexts)
    /\ UNCHANGED <<br_connected, ctx_state, page_state, usVars, sb_count>>
    /\ UNCHANGED rmOthers

\* await self._browser.close() returns in _close_browser_internal
browser_close_returns ==
    /\ rc_pc[ManagerCaller] = "close_browser"
    /\ br_connected' = [br_connected EXCEPT ![rm_browser] = FALSE]
    /\ close_browser_internal(mc_op, mc_new, "browser", {}, {},
                              rm_pages, rm_contexts)
    /\ UNCHANGED <<ctx_state, page_state, usVars, sb_count>>
    /\ UNCHANGED rmOthers

\* the browser process ends or loses its connection
browser_disconnects ==
    /\ browser_connected
    /\ rc_pc[ManagerCaller] = "idle"
    /\ br_connected' = [br_connected EXCEPT ![rm_browser] = FALSE]
    /\ UNCHANGED <<rm_browser, rm_contexts, rm_pages, rm_lock,
                   rm_is_shutting_down, ctx_state, page_state, rc_pc, usVars,
                   mcVars, sb_count>>
    /\ UNCHANGED rmOthers

\* create_context() or create_page() is entered by user u: with no browser,
\* or one that is not connected, RuntimeError is raised; else new_context
\* is awaited
create_begin(u, kind) ==
    /\ rc_pc[u] = "idle"
    /\ us_kind' = [us_kind EXCEPT ![u] = kind]
    /\ IF browser_connected
       THEN /\ rc_pc' = [rc_pc EXCEPT ![u] = "new_context"]
            /\ UNCHANGED us_result
       ELSE /\ rc_pc' = [rc_pc EXCEPT ![u] = "done"]
            /\ us_result' = [us_result EXCEPT ![u] = "refused"]
    /\ UNCHANGED <<rm_browser, br_connected, rm_contexts, rm_pages, rm_lock,
                   rm_is_shutting_down, ctx_state, page_state, us_exc, mcVars,
                   sb_count>>
    /\ UNCHANGED rmOthers

\* await self._browser.new_context() returns a context, or raises: then
\* there is nothing to close and the exception leaves the call
new_context_returns(u, ok) ==
    /\ rc_pc[u] = "new_context"
    /\ IF ok
       THEN /\ ctx_state' = [ctx_state EXCEPT ![u] = "open"]
            /\ rc_pc' = [rc_pc EXCEPT ![u] = "track_context"]
            /\ UNCHANGED us_result
       ELSE /\ rc_pc' = [rc_pc EXCEPT ![u] = "done"]
            /\ us_result' = [us_result EXCEPT ![u] = "raised"]
            /\ UNCHANGED ctx_state
    /\ UNCHANGED <<rm_browser, br_connected, rm_contexts, rm_pages, rm_lock,
                   rm_is_shutting_down, page_state, us_kind, us_exc, mcVars,
                   sb_count>>
    /\ UNCHANGED rmOthers

\* async with self._lock: self._contexts.add(context); create_context then
\* yields the context, create_page awaits context.new_page()
track_context(u) ==
    /\ rc_pc[u] = "track_context"
    /\ rm_lock_free
    /\ rm_contexts' = rm_contexts \cup {u}
    /\ rc_pc' = [rc_pc EXCEPT ![u] = IF us_kind[u] = "create_context"
                                     THEN "in_block" ELSE "new_page"]
    /\ UNCHANGED <<rm_browser, br_connected, rm_pages, rm_lock,
                   rm_is_shutting_down, ctx_state, page_state, usVars, mcVars,
                   sb_count>>
    /\ UNCHANGED rmOthers

\* await context.new_page() returns a page, or raises: the finally clause
\* of create_page then closes the context it created
new_page_returns(u, ok) ==
    /\ rc_pc[u] = "new_page"
    /\ IF ok
       THEN /\ page_state' = [page_state EXCEPT ![u] = "open"]
            /\ rc_pc' = [rc_pc EXCEPT ![u] = "track_page"]
            /\ UNCHANGED us_exc
       ELSE /\ rc_pc' = [rc_pc EXCEPT ![u] = "untrack_context"]
            /\ us_exc' = [us_exc EXCEPT ![u] = TRUE]
            /\ UNCHANGED page_state
    /\ UNCHANGED <<rm_browser, br_connected, rm_contexts, rm_pages, rm_lock,
                   rm_is_shutting_down, ctx_state, us_kind, us_result, mcVars,
                   sb_count>>
    /\ UNCHANGED rmOthers

\* async with self._lock: self._pages.add(page); the page is yielded
track_page(u) ==
    /\ rc_pc[u] = "track_page"
    /\ rm_lock_free
    /\ rm_pages' = rm_pages \cup {u}
    /\ rc_pc' = [rc_pc EXCEPT ![u] = "in_block"]
    /\ UNCHANGED <<rm_browser, br_connected, rm_contexts, rm_lock,
                   rm_is_shutting_down, ctx_state, page_state, usVars, mcVars,
                   sb_count>>
    /\ UNCHANGED rmOthers

\* a wrong create_context and create_page: the close follows the yield
\* without a finally clause, so an exception in the block skips it
closes_on_exit_normal_only(exc) == ~ exc

\* finally: the close is reached on a normal exit and on an exception
closes_on_exit(exc) == TRUE

\* the block under create_context() or create_page() ends, normally or by
\* an exception raised in it
block_exits(u, exc) ==
    /\ rc_pc[u] = "in_block"
    /\ us_exc' = [us_exc EXCEPT ![u] = exc]
    /\ IF closes_on_exit(exc)
       THEN /\ rc_pc' = [rc_pc EXCEPT ![u] = IF us_kind[u] = "create_page"
                                            THEN "untrack_page"
                                            ELSE "untrack_context"]
            /\ UNCHANGED us_result
       ELSE /\ rc_pc' = [rc_pc EXCEPT ![u] = "done"]
            /\ us_result' = [us_result EXCEPT ![u] = "raised"]
    /\ UNCHANGED <<rm_browser, br_connected, rm_contexts, rm_pages, rm_lock,
                   rm_is_shutting_down, ctx_state, page_state, us_kind, mcVars,
                   sb_count>>
    /\ UNCHANGED rmOthers

\* _close_page_safe: async with self._lock: self._pages.discard(page)
close_page_safe_untrack(c) ==
    /\ rc_pc[c] = "untrack_page"
    /\ rm_lock_free
    /\ rm_pages' = rm_pages \ {target(c)}
    /\ rc_pc' = [rc_pc EXCEPT ![c] = "close_page"]
    /\ UNCHANGED <<rm_browser, br_connected, rm_contexts, rm_lock,
                   rm_is_shutting_down, ctx_state, page_state, usVars, mcVars,
                   sb_count>>
    /\ UNCHANGED rmOthers

\* _close_page_safe: the page is closed if it is not closed yet; a block
\* exit of create_page goes on to close the context it created,
\* _close_browser_internal goes on with its lists
close_page_safe_close(c) ==
    /\ rc_pc[c] = "close_page"
    /\ page_state' = [page_state EXCEPT ![target(c)] = "closed"]
    /\ IF c = ManagerCaller
       THEN close_browser_internal(mc_op, mc_new, "pages", mc_pages, {},
                                   rm_pages, rm_contexts)
       ELSE /\ rc_pc' = [rc_pc EXCEPT ![c] = "untrack_context"]
            /\ UNCHANGED <<rm_browser, rm_contexts, rm_pages, rm_lock,
                           rm_is_shutting_down, mcVars>>
    /\ UNCHANGED <<br_connected, ctx_state, usVars, sb_count>>
    /\ UNCHANGED rmOthers

\* _close_context_safe: async with self._lock: self._contexts.discard(context)
close_context_safe_untrack(c) ==
    /\ rc_pc[c] = "untrack_context"
    /\ rm_lock_free
    /\ rm_contexts' = rm_contexts \ {target(c)}
    /\ rc_pc' = [rc_pc EXCEPT ![c] = "close_context"]
    /\ UNCHANGED <<rm_browser, br_connected, rm_pages, rm_lock,
                   rm_is_shutting_down, ctx_state, page_state, usVars, mcVars,
                   sb_count>>
    /\ UNCHANGED rmOthers

\* _close_context_safe: a page of the context that is still open is closed
\* by _close_page_safe, which takes it out of _pages inside the lock; then
\* the context is closed.  A block exit ends here, the exception of the
\* block, if any, being raised again.
close_context_safe_close(c) ==
    LET t == target(c)
        page_open == page_state[t] = "open"
        pages_now == IF page_open THEN rm_pages \ {t} ELSE rm_pages
    IN
    /\ rc_pc[c] = "close_context"
    /\ page_open => rm_lock_free
    /\ page_state' = [page_state EXCEPT ![t] = IF page_open THEN "closed" ELSE @]
    /\ ctx_state' = [ctx_state EXCEPT ![t] = "closed"]
    /\ IF c = ManagerCaller
       THEN /\ close_browser_internal(mc_op, mc_new, "contexts", {},
                                      mc_contexts, pages_now, rm_contexts)
            /\ UNCHANGED usVars
       ELSE /\ rc_pc' = [rc_pc EXCEPT ![c] = "done"]
            /\ us_result' = [us_result EXCEPT ![c] = IF us_exc[c] THEN "raised"
                                                                 ELSE "exited"]
            /\ rm_pages' = pages_now
            /\ UNCHANGED <<rm_browser, rm_contexts, rm_lock,
                           rm_is_shutting_down, us_kind, us_exc, mcVars>>
    /\ UNCHANGED <<br_connected, sb_count>>
    /\ UNCHANGED rmOthers

\* what the manager caller does inside a call it has begun
manager_call_continues ==
    \/ close_page_safe_untrack(ManagerCaller)
    \/ close_page_safe_close(ManagerCaller)
    \/ close_context_safe_untrack(ManagerCaller)
    \/ close_context_safe_close(ManagerCaller)
    \/ browser_close_returns

\* what a user's call does at the exit of its block
block_exit_continues ==
    \E u \in Users :
       \/ close_page_safe_untrack(u)
       \/ close_page_safe_close(u)
       \/ close_context_safe_untrack(u)
       \/ close_context_safe_close(u)

\* users of create_context and create_page, set_browser and close_all
RMNext ==
    \/ \E b \in Browsers : set_browser(b)
    \/ close_all
    \/ browser_close_returns
    \/ browser_disconnects
    \/ \E u \in Users, kind \in BlockKinds : create_begin(u, kind)
    \/ \E u \in Users, ok \in BOOLEAN : new_context_returns(u, ok)
    \/ \E u \in Users : track_context(u)
    \/ \E u \in Users, ok \in BOOLEAN : new_page_returns(u, ok)
    \/ \E u \in Users : track_page(u)
    \/ \E u \in Users, exc \in BOOLEAN : block_exits(u, exc)
    \/ \E c \in Callers : close_page_safe_untrack(c)
    \/ \E c \in Callers : close_page_safe_close(c)
    \/ \E c \in Callers : close_context_safe_untrack(c)
    \/ \E c \in Callers : close_context_safe_close(c)

(***************************************************************************)
(* Specifications, one per component                                       *)
(***************************************************************************)
\* any interleaving of switch_model_safe calls with the other operations
\* of the ModelManager
InitSwitch == MMInit /\ SDInit /\ SSInit /\ TMInit /\ LMInit /\ STInit /\ RMInit
SpecSwitch == InitSwitch /\ [][MMNext]_vars

\* N concurrent switch_model_safe calls to one valid target that is not the
\* active model, and nothing else
InitSwitchSame == MMInitSame /\ SDInit /\ SSInit /\ TMInit /\ LMInit /\ STInit /\ RMInit
SpecSwitchSame == InitSwitchSame /\ [][SwitchStep]_vars

\* the shutdown manager: registrations and shutdown() calls
InitShutdown == MMIdle /\ SDInit /\ SSInit /\ TMInit /\ LMInit /\ STInit /\ RMInit
SpecShutdown == InitShutdown /\ [][SDNext]_vars

\* the session pool: initialization, dispatch and the requests' use of
\* their sessions
InitSession == MMIdle /\ SDInit /\ SSInit /\ TMInit /\ LMInit /\ STInit /\ RMInit
SpecSession == InitSession /\ [][SSNext]_vars

\* initialize_all and successive acquire_session calls
InitPool == MMIdle /\ SDInit /\ SSInit /\ TMInit /\ LMInit /\ STInit /\ RMInit
SpecPool == InitPool /\ [][SSPoolNext]_vars

\* the pool with sessions being closed
InitPoolClose == MMIdle /\ SDInit /\ SSInit /\ TMInit /\ LMInit /\ STInit /\ RMInit
SpecPoolClose == InitPoolClose /\ [][SSCloseNext]_vars

\* initialize_all on any auth directory
InitAnyDir == MMIdle /\ SDInit /\ SSInitAnyDir /\ TMInit /\ LMInit /\ STInit /\ RMInit
SpecInitializeAll == InitAnyDir /\ [][SSInitializeNext]_vars

\* the task managers: submissions, task completions, cancel_all_tasks and
\* cleanup_global_tasks
InitTasks == MMIdle /\ SDInit /\ SSInit /\ TMInit /\ LMInit /\ STInit /\ RMInit
SpecTasks == InitTasks /\ [][TMNext]_vars

\* the tasks of the global manager under a fair event loop: the
\* done-callbacks of a finished task are scheduled with call_soon and the
\* loop runs them
SpecTasksFair ==
    /\ InitTasks
    /\ [][TMLifecycleNext]_vars
    /\ WF_vars(\E t \in Tasks, cb \in CallbackOutcomes : task_done_callback(t, cb))

\* cancel_task on the tasks of the global manager
SpecCancelTask == InitTasks /\ [][TMCancelNext]_vars

\* the disconnect monitor of one request
InitMonitor == MMIdle /\ SDInit /\ SSInit /\ TMInit /\ LMInit /\ STInit /\ RMInit
SpecMonitor == InitMonitor /\ [][LMNext]_vars

\* the same under a fair event loop: the poll loop's awaits (a 10 ms wait,
\* the transport read, a 0.3 s sleep) end, and the loop is resumed
SpecMonitorFair ==
    InitMonitor /\ [][LMNext]_vars /\ WF_vars(check_disconnect_periodically)

\* one store under concurrent writers and readers of the model id
InitStore == MMIdle /\ SDInit /\ SSInit /\ TMInit /\ LMInit /\ STInit /\ RMInit
SpecStore == InitStore /\ [][STNext]_vars

\* the ModelManager methods with direct callers of the store; one of these,
\* set_browser_instance, awaits inside the state lock
LockNext ==
    \/ \E c \in SwitchCallers : switch_model_safe_call(c)
    \/ \E c \in SwitchCallers : model_switch_context_enter(c)
    \/ \E c \in SwitchCallers : switch_model_safe_check(c)
    \/ \E c \in SwitchCallers, outcome \in BackendOutcomes :
          switch_model_safe_backend_done(c, outcome)
    \/ \E l \in {{}, ModelIds} : update_model_list_safe(l)
    \/ \E e \in {{}, {"model_2"}} : update_excluded_models_safe(e)
    \/ \E m \in ModelIds : set_current_model_from_page(m)
    \/ \E initializing \in BOOLEAN : set_initializing(initializing)
    \/ set_browser_instance_begin
    \/ \E connected \in BOOLEAN : set_browser_instance_end(connected)

InitLocks == MMIdle /\ SDInit /\ SSInit /\ TMInit /\ LMInit /\ STInit /\ RMInit
SpecLocks == InitLocks /\ [][LockNext]_vars

\* the same under a fair event loop with fair locks: asyncio.Lock wakes its
\* waiters in the order they came, the backend call of each switch returns,
\* and is_connected() returns
SpecLocksFair ==
    /\ InitLocks
    /\ [][LockNext]_vars
    /\ \A c \in SwitchCallers :
          /\ SF_vars(model_switch_context_enter(c))
          /\ WF_vars(switch_model_safe_check(c))
          /\ WF_vars(\E outcome \in BackendOutcomes :
                        switch_model_safe_backend_done(c, outcome))
    /\ WF_vars(\E connected \in BOOLEAN : set_browser_instance_end(connected))

\* the browser resource manager
InitResources == MMIdle /\ SDInit /\ SSInit /\ TMInit /\ LMInit /\ STInit /\ RMInit
SpecResources == InitResources /\ [][RMNext]_vars

\* the same under a fair event loop: a call of the manager caller, or the
\* exit of a block, that can go on does go on
SpecResourcesFair ==
    /\ InitResources
    /\ [][RMNext]_vars
    /\ WF_vars(manager_call_continues)
    /\ WF_vars(block_exit_continues)

\* one store and the users of its cache
InitCache == MMIdle /\ SDInit /\ SSInit /\ TMInit /\ LMInit /\ STInit /\ RMInit
SpecCache == InitCache /\ [][STCacheNext]_vars

\* one store, the setters of its handles and flags
InitReady == MMIdle /\ SDInit /\ SSInit /\ TMInit /\ LMInit /\ STInit /\ RMInit
SpecReady == InitReady /\ [][STReadyNext]_vars

\* one store, its setters and reset_all_state
InitStoreReset == MMIdle /\ SDInit /\ SSInit /\ TMInit /\ LMInit /\ STInit /\ RMInit
SpecStoreReset == InitStoreReset /\ [][STResetNext]_vars

\* the global instances
InitSingletons == MMIdle /\ SDInit /\ SSInit /\ TMInit /\ LMInit /\ STInit /\ RMInit
SpecSingletons == InitSingletons /\ [][STSingletonNext]_vars

(***************************************************************************)
(* Claims                                                                  *)
(***************************************************************************)
(***************************************************************************)
(* C1: at most one call of the backend switch function is in progress at   *)
(* any time, for any interleaving of switch_model_safe calls.              *)
(***************************************************************************)
C1_OneBackendCallAtATime ==
    /\ Cardinality(backend_running) <= 1
    /\ \A c \in backend_running : switch_lock = c

\* a backend call is in progress while another caller waits for the lock
C1_Witness ==
    \E c, d \in SwitchCallers :
        /\ c # d
        /\ c \in backend_running
        /\ mm_pc[d] = "wait_lock"

(***************************************************************************)
(* C2 as stated: when all the calls to one target have returned, the       *)
(* backend was invoked exactly once.                                       *)
(***************************************************************************)
AllSwitchDone == \A c \in SwitchCallers : mm_pc[c] = "done"

C2_ExactlyOnce == AllSwitchDone => backend_calls = 1

(***************************************************************************)
(* C2 amended: the backend is invoked at most once more than it has        *)
(* failed (returned false, raised, or was cancelled): once an invocation   *)
(* returned true no caller invokes it again.  So when no invocation fails  *)
(* and some call runs to its end, the backend is invoked exactly once and  *)
(* every call that was not cancelled returns success.                      *)
(***************************************************************************)
C2_OncePerSuccess ==
    /\ backend_calls <= backend_failed + 1
    /\ (/\ AllSwitchDone
        /\ backend_failed = 0
        /\ \E c \in SwitchCallers : mm_result[c] # "cancelled") =>
          /\ backend_calls = 1
          /\ \A c \in SwitchCallers : mm_result[c] \in {"true", "cancelled"}

\* every call has returned, one backend invocation, the later callers
\* short-circuited
C2_Witness ==
    /\ AllSwitchDone
    /\ backend_calls = 1
    /\ backend_failed = 0
    /\ \A c \in SwitchCallers : mm_result[c] = "true"

\* the handler starts of the log, in order
SdStarts == SelectSeq(sd_log, LAMBDA e : e.ev = "start")

SdStartCount(pos) ==
    Cardinality({k \in 1..Len(sd_log) :
                    sd_log[k].ev = "start" /\ sd_log[k].pos = pos})

(***************************************************************************)
(* C3: over any number of concurrent or sequential shutdown() calls each   *)
(* registered handler is invoked at most once; a call that finds a run in  *)
(* progress invokes no handler and returns only after the event is set.    *)
(***************************************************************************)
C3_HandlersAtMostOnce ==
    /\ \A pos \in 1..Len(shutdown_handlers) : SdStartCount(pos) <= 1
    /\ \A c \in ShutdownCallers :
          sd_pc[c] \in {"waiting", "waited"} =>
              \A k \in 1..Len(sd_log) : sd_log[k].by # c
    /\ \A c \in ShutdownCallers : sd_pc[c] = "waited" => shutdown_event
    /\ \A k, l \in 1..Len(sd_log) : sd_log[k].by = sd_log[l].by

\* a second call was made while the first was running a handler, and has
\* returned after the first run invoked every handler
C3_Witness ==
    \E c, d \in ShutdownCallers :
        /\ sd_pc[c] = "done"
        /\ sd_pc[d] = "waited"
        /\ Len(SdStarts) = Len(shutdown_handlers)
        /\ Len(shutdown_handlers) >= 2
        /\ sd_log[2].by = c

(***************************************************************************)
(* C4: shutdown() invokes the handlers in the reverse of their             *)
(* registration order, each one started only after the one before it has   *)
(* returned or failed; a shutdown that returns has invoked all of them.    *)
(***************************************************************************)
C4_ReverseOrder ==
    /\ \A k \in 1..Len(SdStarts) :
          SdStarts[k].pos = Len(shutdown_handlers) - k + 1
    /\ \A k \in 2..Len(sd_log) :
          sd_log[k].ev = "start" => sd_log[k - 1].ev \in {"return", "raise"}
    /\ \A c \in ShutdownCallers :
          sd_pc[c] = "done" => Len(SdStarts) = Len(shutdown_handlers)

\* handlers registered [A, B, C] have run as C, then B, then A
C4_Witness ==
    /\ shutdown_handlers = << "A", "B", "C" >>
    /\ \E c \in ShutdownCallers : sd_pc[c] = "done"
    /\ [k \in 1..Len(SdStarts) |-> shutdown_handlers[SdStarts[k].pos]]
          = << "C", "B", "A" >>
    /\ \E k \in 1..Len(sd_log) : sd_log[k].ev = "raise"

(***************************************************************************)
(* C5 as stated: with the default handlers a shutdown runs                 *)
(* cleanup_async_tasks before cleanup_browser_resources, and               *)
(* cleanup_browser_resources before cleanup_playwright.                    *)
(***************************************************************************)
SdStartedBefore(g, h) ==
    \A k, l \in 1..Len(SdStarts) :
        (/\ shutdown_handlers[SdStarts[k].pos] = g
         /\ shutdown_handlers[SdStarts[l].pos] = h) => k < l

C5_TasksThenBrowserThenPlaywright ==
    /\ SdStartedBefore("cleanup_async_tasks", "cleanup_browser_resources")
    /\ SdStartedBefore("cleanup_browser_resources", "cleanup_playwright")

(***************************************************************************)
(* C6: at most one request operates on a given Session at any time, also   *)
(* when acquire_session gave the same Session to several requests.         *)
(***************************************************************************)
Operating(s) == {r \in Requests : req_pc[r] = "operating" /\ req_session[r] = s}

C6_OneOperatorPerSession ==
    \A s \in AuthFiles :
        /\ Cardinality(Operating(s)) <= 1
        /\ \A r \in Operating(s) : session_lock[s] = r

\* more requests than sessions: two requests were given the same session,
\* one operates on it and the other waits for its lock
C6_Witness ==
    /\ Len(sessions) < NumRequests
    /\ \E r, q \in Requests :
          /\ r # q
          /\ req_session[r] = req_session[q]
          /\ req_pc[r] = "operating"
          /\ req_pc[q] = "routed"

(***************************************************************************)
(* C7 as stated: at any time at most one task of a given name is           *)
(* registered in a task manager, its tracked set and named index taken     *)
(* together.                                                               *)
(***************************************************************************)
Registered(m, n) ==
    {t \in Tasks : /\ task_name[t] = n
                   /\ task_mgr[t] = m
                   /\ (t \in tm_tasks[m] \/ tm_named[m][n] = t)}

C7_OneRegisteredPerName ==
    \A m \in Managers, n \in Names : Cardinality(Registered(m, n)) <= 1

(***************************************************************************)
(* C7 amended: at any time at most one task of a given name is registered  *)
(* that is unfinished and has not been asked to cancel, and it is the one  *)
(* the named index holds; the index holds one task per name.  The task     *)
(* create_task supersedes is asked to cancel before the new one is         *)
(* registered, and stays in the tracked set until it finishes.             *)
(***************************************************************************)
C7_OneLivePerName ==
    \A m \in Managers, n \in Names :
        \A t \in Registered(m, n) :
            task_state[t] = "pending" => tm_named[m][n] = t

\* a second task was created under the name of an unfinished one: both are
\* tracked, the old one asked to cancel, the new one in the index
C7_Witness ==
    \E m \in Managers, n \in Names : \E t, u \in tm_tasks[m] :
        /\ t # u
        /\ task_name[t] = n /\ task_name[u] = n
        /\ task_state[t] = "cancelling"
        /\ task_state[u] = "pending"
        /\ tm_named[m][n] = u
        /\ ~ tm_shutting[m]

(***************************************************************************)
(* C8 as stated: whenever cancel_all_tasks returns, the tracked set and    *)
(* the named index of its manager are both empty.                          *)
(***************************************************************************)
C8_EmptyOnReturn ==
    ca_pc = "returned" =>
        /\ tm_tasks[ca_mgr] = {}
        /\ \A n \in Names : tm_named[ca_mgr][n] = 0

(***************************************************************************)
(* C9: once cancel_all_tasks has been invoked on a manager its flag stays  *)
(* set, no task is added to its tracked set or named index, and every      *)
(* create_task call on it is rejected and changes neither.                 *)
(***************************************************************************)
C9_ClosedAfterCancelAll ==
    [][\A m \in Managers :
          tm_shutting[m] =>
             /\ tm_shutting'[m]
             /\ tm_tasks'[m] \subseteq tm_tasks[m]
             /\ \A n \in Names : tm_named'[m][n] \in {tm_named[m][n], 0}
             /\ (tm_last_create' # tm_last_create /\ tm_last_create'.mgr = m) =>
                   /\ tm_last_create'.result = "rejected"
                   /\ tm_tasks' = tm_tasks
                   /\ tm_named' = tm_named
                   /\ task_state' = task_state]_vars

\* a create_task call was rejected while cancel_all_tasks waits for a batch
C9_Witness ==
    /\ ca_pc = "waiting"
    /\ ca_batch # {}
    /\ tm_last_create = [mgr |-> ca_mgr, result |-> "rejected"]

(***************************************************************************)
(* C10 as stated: once cleanup_global_tasks has begun to shut the global   *)
(* task manager down, no task is started through the global registry.      *)
(***************************************************************************)
C10_NoTaskAfterCleanup ==
    [][cleanup_called =>
          \A t \in Tasks : task_state[t] = "new" => task_state'[t] = "new"]_vars

\* the number of negative signals at the end of what the monitor has read
RECURSIVE TrailingNegatives(_)
TrailingNegatives(sigs) ==
    IF sigs = << >> \/ sigs[Len(sigs)].sig # "gone"
    THEN 0
    ELSE 1 + TrailingNegatives(SubSeq(sigs, 1, Len(sigs) - 1))

\* the monitor has declared the client gone on the signals it read
Declared == lm_exit \in Paths

(***************************************************************************)
(* C11: the monitor declares disconnection exactly when the latest 5       *)
(* signals it read, from the active probe and the passive flag in the      *)
(* order they were read, are all negative: 4 negatives followed by a       *)
(* positive never declare, 5 consecutive negatives in any mix of the two   *)
(* paths always do.  (The event is otherwise set only by the internal      *)
(* error path.)                                                            *)
(***************************************************************************)
C11_DeclaredAtFiveNegatives ==
    /\ Declared <=> TrailingNegatives(lm_signals) >= disconnect_threshold
    /\ (/\ Len(lm_signals) = disconnect_threshold
        /\ lm_signals[disconnect_threshold].sig = "connected"
        /\ \A k \in 1..(disconnect_threshold - 1) : lm_signals[k].sig = "gone")
          => ~ Declared
    /\ Declared => client_disconnected_event
    /\ client_disconnected_event => (Declared \/ lm_exit = "error")

\* the threshold is reached by negatives of both paths and the pending
\* result is resolved with the 499 failure
C11_Witness ==
    /\ Declared
    /\ lm_last["active"] = "gone"
    /\ lm_last["passive"] = "gone"
    /\ \E k \in 1..disconnect_threshold : lm_signals[k].path = "active"
    /\ \E k \in 1..disconnect_threshold : lm_signals[k].path = "passive"
    /\ result_future = "exc_499"

(***************************************************************************)
(* C12: the monitor resolves the request's result at most once and the     *)
(* disconnect flag, once set, is never cleared: a result that has been     *)
(* produced, by the request or by the monitor, is never changed, and       *)
(* set_exception is never called on a result future that is done.          *)
(***************************************************************************)
C12_ResolvedAtMostOnce ==
    /\ [](~ lm_invalid_state)
    /\ [][/\ client_disconnected_event => client_disconnected_event'
          /\ result_future # "pending" => result_future' = result_future]_vars

\* the threshold is reached when the request has already produced its result
C12_Witness ==
    /\ Declared
    /\ client_disconnected_event
    /\ result_future = "result"

(***************************************************************************)
(* C13 as stated: either detection path alone declares disconnection: if   *)
(* from some poll on the active probe reports the client gone on every     *)
(* poll, or the passive flag does, then the monitor (when it is not        *)
(* cancelled) eventually sets the disconnect flag, whatever the other      *)
(* path reports.                                                           *)
(***************************************************************************)
C13_EitherPathAlone ==
    (/\ \/ <>[](lm_last["active"] = "gone")
        \/ <>[](lm_last["passive"] = "gone")
     /\ [](lm_exit # "cancelled"))
        => <>client_disconnected_event

\* the model fields of the state store
ModelState == <<current_model_id, parsed_model_list, excluded_model_ids>>

(***************************************************************************)
(* C14: switch_model_safe stores the target as the active model exactly    *)
(* when the backend call returns true, and then returns True; when the     *)
(* backend returns false or raises the call returns False, and the active  *)
(* model, the catalog and the excluded set are what they were before the   *)
(* backend call; they do not change while the call is in progress, nor by  *)
(* a call that ends without calling the backend.                           *)
(***************************************************************************)
C14_StoredOnlyOnSuccess ==
    [][\A c \in SwitchCallers :
          /\ (mm_pc[c] = "backend" /\ mm_pc'[c] = "done") =>
                \/ /\ backend_failed' = backend_failed
                   /\ mm_result'[c] = "true"
                   /\ current_model_id' = mm_target[c]
                   /\ UNCHANGED <<parsed_model_list, excluded_model_ids>>
                \/ /\ backend_failed' = backend_failed + 1
                   /\ mm_result'[c] \in {"false", "cancelled"}
                   /\ UNCHANGED ModelState
          /\ (mm_pc[c] = "backend" /\ mm_pc'[c] # "done") =>
                UNCHANGED ModelState
          /\ (mm_pc[c] \in {"wait_lock", "locked"} /\ mm_pc'[c] # mm_pc[c]) =>
                UNCHANGED ModelState]_vars

\* a call whose backend call failed has returned False, another one's
\* backend call succeeded and its target is the active model
C14_Witness ==
    \E c, d \in SwitchCallers :
        /\ mm_pc[c] = "done" /\ mm_result[c] = "false"
        /\ mm_pc[d] = "done" /\ mm_result[d] = "true"
        /\ backend_failed = 1
        /\ backend_calls = 2
        /\ current_model_id = mm_target[d]

\* the target of call c is absent from the catalog or is excluded
InvalidTarget(c) ==
    \/ mm_target[c] \notin parsed_model_list
    \/ mm_target[c] \in excluded_model_ids

\* call c, holding the lock, ends or goes on to the backend in this step
ChecksTarget(c) == mm_pc[c] = "locked" /\ mm_pc'[c] # "locked"

(***************************************************************************)
(* C15 as stated: switch_model_safe with a target that is absent from the  *)
(* catalog or is in the excluded set returns False, does not invoke the    *)
(* backend and leaves the active model unchanged, in every state of the    *)
(* store.                                                                  *)
(***************************************************************************)
C15_InvalidTargetFails ==
    [][\A c \in SwitchCallers :
          (ChecksTarget(c) /\ InvalidTarget(c)) =>
              /\ mm_pc'[c] = "done"
              /\ mm_result'[c] = "false"
              /\ backend_calls' = backend_calls
              /\ current_model_id' = current_model_id]_vars

(***************************************************************************)
(* C15 amended: switch_model_safe with such a target never invokes the     *)
(* backend and leaves the active model unchanged; it returns False unless  *)
(* the target is already the active model, in which case the re-check      *)
(* comes first and the call returns True.                                  *)
(***************************************************************************)
C15_InvalidTargetNoBackend ==
    [][\A c \in SwitchCallers :
          (ChecksTarget(c) /\ InvalidTarget(c)) =>
              /\ mm_pc'[c] = "done"
              /\ mm_result'[c] =
                    (IF current_model_id = mm_target[c] THEN "true" ELSE "false")
              /\ backend_calls' = backend_calls
              /\ current_model_id' = current_model_id]_vars

\* a call with an excluded target that is not the active model has returned
\* False and the backend was never invoked
C15_Witness ==
    \E c \in SwitchCallers :
        /\ mm_pc[c] = "done"
        /\ mm_result[c] = "false"
        /\ mm_target[c] \in excluded_model_ids
        /\ mm_target[c] \in parsed_model_list
        /\ current_model_id # mm_target[c]
        /\ backend_calls = 0

(***************************************************************************)
(* C16: the switching flag is true exactly while a switch_model_safe call  *)
(* holds the coordinator lock: a call that has ended, however it ended,    *)
(* does not hold the lock; with the lock free the flag is false; and no    *)
(* caller acquires the lock while the flag is true.                        *)
(***************************************************************************)
C16_FlagOnlyWhileLocked ==
    /\ [](/\ switching_in_progress <=> switch_lock # 0
          /\ \A c \in SwitchCallers :
                /\ switch_lock = c <=> mm_pc[c] \in {"locked", "backend"}
                /\ mm_pc[c] = "done" => switch_lock # c)
    /\ [][(switch_lock' # switch_lock /\ switch_lock' # 0) =>
             (switch_lock = 0 /\ ~ switching_in_progress)]_vars

\* calls have ended by a failed backend call and by cancellation inside the
\* backend call; the lock is free and the flag is false
C16_Witness ==
    /\ \E c \in SwitchCallers : mm_pc[c] = "done" /\ mm_result[c] = "cancelled"
    /\ \E c \in SwitchCallers : mm_pc[c] = "done" /\ mm_result[c] = "false"
    /\ backend_calls = 2
    /\ backend_failed = 2
    /\ switch_lock = 0
    /\ ~ switching_in_progress

(***************************************************************************)
(* C17: a handler that raises an Exception does not stop the shutdown: the *)
(* next handler in the reverse order is started right after it, and after  *)
(* the last one shutdown() returns normally with the event set; a          *)
(* shutdown() that has returned has invoked every registered handler.      *)
(***************************************************************************)
C17_RaisingHandlerContained ==
    /\ \A k \in 1..Len(sd_log) :
          sd_log[k].ev = "raise" =>
              IF sd_log[k].pos > 1
              THEN /\ k < Len(sd_log)
                   /\ sd_log[k + 1].ev = "start"
                   /\ sd_log[k + 1].pos = sd_log[k].pos - 1
                   /\ sd_log[k + 1].by = sd_log[k].by
              ELSE /\ k = Len(sd_log)
                   /\ sd_pc[sd_log[k].by] = "done"
                   /\ shutdown_event
    /\ \A c \in ShutdownCallers :
          sd_pc[c] = "done" =>
              \A pos \in 1..Len(shutdown_handlers) : SdStartCount(pos) = 1
    /\ \A c \in ShutdownCallers : sd_pc[c] # "raised"

\* the first handler run and the last one raised, every handler was invoked
\* and shutdown() has returned
C17_Witness ==
    /\ Len(shutdown_handlers) >= 3
    /\ \E c \in ShutdownCallers : sd_pc[c] = "done"
    /\ \E k \in 1..Len(sd_log) :
          sd_log[k].ev = "raise" /\ sd_log[k].pos = Len(shutdown_handlers)
    /\ sd_log[Len(sd_log)].ev = "raise"
    /\ \A pos \in 1..Len(shutdown_handlers) : SdStartCount(pos) = 1

\* the handler at position pos has returned or failed
SdEnded(pos) ==
    \E k \in 1..Len(sd_log) :
        sd_log[k].ev \in {"return", "raise"} /\ sd_log[k].pos = pos

\* every registered handler has been invoked and has returned or failed
SdAllHandlersRan ==
    \A pos \in 1..Len(shutdown_handlers) : SdStartCount(pos) = 1 /\ SdEnded(pos)

\* the running shutdown() was cancelled inside a handler
SdRunCancelled ==
    Len(sd_log) > 0 /\ sd_log[Len(sd_log)].ev = "cancelled"

\* in this step the running shutdown() of caller c ends: its finally sets the event
SdRunEnds(c) ==
    \/ sd_pc[c] = "running" /\ sd_pc'[c] # "running"
    \/ sd_pc[c] = "idle" /\ sd_pc'[c] = "done"

(***************************************************************************)
(* C18 as stated: in every execution the completion signal is set only     *)
(* after every registered handler has been invoked and has returned or     *)
(* failed.                                                                 *)
(***************************************************************************)
C18_SignalOnlyAfterAllHandlers == shutdown_event => SdAllHandlersRan

(***************************************************************************)
(* C18 amended: the completion signal is set exactly once, by the finally  *)
(* of the one running shutdown(): after every registered handler has been  *)
(* invoked and has returned or failed, or at once when that shutdown() is  *)
(* cancelled inside a handler; it is never cleared, and the blocked        *)
(* callers of shutdown() and wait_for_shutdown() return only when it is    *)
(* set.                                                                    *)
(***************************************************************************)
C18_SignalOnceWhenRunEnds ==
    /\ [](/\ shutdown_event => (SdAllHandlersRan \/ SdRunCancelled)
          /\ shutdown_event => is_shutting_down
          /\ (\E c \in ShutdownCallers : sd_pc[c] = "done") => shutdown_event
          /\ \A c \in ShutdownCallers : sd_pc[c] = "waited" => shutdown_event)
    /\ [][/\ shutdown_event => shutdown_event'
          /\ (~ shutdown_event /\ shutdown_event') =>
                \E c \in ShutdownCallers : SdRunEnds(c)
          /\ \A c \in ShutdownCallers :
                SdRunEnds(c) => (~ shutdown_event /\ shutdown_event')]_vars

\* every handler has run, the signal is set, and a caller of shutdown() that
\* was blocked has returned
C18_Witness ==
    /\ shutdown_event
    /\ Len(shutdown_handlers) >= 2
    /\ SdAllHandlersRan
    /\ \E c, d \in ShutdownCallers : sd_pc[c] = "done" /\ sd_pc[d] = "waited"

(***************************************************************************)
(* C19: add_shutdown_handler called after shutdown() has started is        *)
(* rejected: from then on the handler list never changes, so the late      *)
(* handler is not in it and only handlers of the list are invoked, each at *)
(* most once, by the running shutdown() and by no later call.              *)
(***************************************************************************)
C19_LateHandlerRejected ==
    /\ [](/\ add_rejected => is_shutting_down
          /\ \A k \in 1..Len(sd_log) :
                /\ sd_log[k].pos \in 1..Len(shutdown_handlers)
                /\ sd_log[k].by = sd_log[1].by
          /\ \A pos \in 1..Len(shutdown_handlers) : SdStartCount(pos) <= 1)
    /\ [][is_shutting_down =>
             /\ is_shutting_down'
             /\ shutdown_handlers' = shutdown_handlers]_vars

\* a handler was refused after shutdown() had started; the shutdown has
\* returned, a later shutdown() call has returned too, and the handlers
\* invoked are the two of the list
C19_Witness ==
    /\ add_rejected
    /\ Len(shutdown_handlers) = 2
    /\ Len(SdStarts) = 2
    /\ \E c, d \in ShutdownCallers : sd_pc[c] = "done" /\ sd_pc[d] = "waited"

\* no manager holds task t in its tracked set or in its named index
Untracked(t) ==
    \A m \in Managers :
        /\ t \notin tm_tasks[m]
        /\ \A n \in Names : tm_named[m][n] # t

(***************************************************************************)
(* C20: a task created through create_task that has finished, by success,  *)
(* exception or cancellation, is eventually removed from the tracked set   *)
(* and, if it still holds its name, from the named index; an index entry   *)
(* held by another task is left alone; the user callback runs after the    *)
(* removal, the removal also happens when that callback raises, and the    *)
(* callback's exception never leaves task_done_callback.                   *)
(***************************************************************************)
C20_RemovedOnCompletion ==
    /\ []<>(\A t \in Tasks : task_state[t] = "done" => Untracked(t))
    /\ [](/\ \A t \in Tasks : task_state[t] = "reaped" => Untracked(t)
          /\ ~ cb_seen.escaped
          /\ ~ cb_seen.tracked)
    /\ [][\A t \in Tasks :
            (task_state[t] = "done" /\ task_state'[t] = "reaped") =>
                \A m \in Managers :
                    /\ tm_tasks'[m] = tm_tasks[m] \ {t}
                    /\ \A n \in Names :
                          tm_named'[m][n] =
                              (IF tm_named[m][n] = t THEN 0 ELSE tm_named[m][n])]_vars

\* a user callback has raised; every task whose done-callback has run is
\* removed, and another task is the holder of the name X
C20_Witness ==
    /\ cb_seen.raised
    /\ \E t, u \in Tasks :
          /\ t # u
          /\ task_state[t] = "reaped"
          /\ task_state[u] \in {"pending", "done"}
          /\ \E m \in Managers : tm_named[m]["X"] = u
    /\ \A t \in Tasks : task_state[t] = "reaped" => Untracked(t)

(***************************************************************************)
(* C21: cancel_task(name) returns True whenever an unfinished task is       *)
(* registered under the name in the manager's index: it cancels that task  *)
(* and waits, and returns True both when the task has settled and when the *)
(* wait ended with the task unfinished.  With no task registered under the *)
(* name, or with the registered task already finished, it returns False    *)
(* and changes nothing of the manager or of any task.                      *)
(***************************************************************************)
C21_CancelTaskResult ==
    [][/\ (ct_pc = "idle" /\ ct_pc' # "idle") =>
            IF /\ tm_named[task_manager][ct_name'] # 0
               /\ task_state[tm_named[task_manager][ct_name']] \in
                     {"pending", "cancelling"}
            THEN /\ ct_pc' = "waiting"
                 /\ ct_task' = tm_named[task_manager][ct_name']
                 /\ task_state'[ct_task'] = "cancelling"
            ELSE /\ ct_pc' = "returned_false"
                 /\ UNCHANGED <<task_manager, tm_tasks, tm_named, tm_shutting,
                                task_state, task_name, task_mgr>>
       /\ (ct_pc = "waiting" /\ ct_pc' # "waiting") => ct_pc' = "returned_true"
      ]_vars

\* cancel_task has returned True with the task it cancelled still unfinished
\* (the wait timed out), after an earlier task of the name had finished
C21_Witness ==
    /\ ct_pc = "returned_true"
    /\ task_state[ct_task] = "cancelling"
    /\ \E t \in Tasks : t # ct_task /\ task_done(t)

(***************************************************************************)
(* C22: an Exception raised inside the poll loop (by the transport's       *)
(* is_disconnected) is treated as a disconnection: on that step the        *)
(* disconnect flag is set, the loop is left, a result that is still        *)
(* pending is resolved with the status-500 failure and a result already    *)
(* produced is kept; the handler itself raises nothing (set_exception is   *)
(* not called on a done future), so the monitor task ends normally.        *)
(***************************************************************************)
C22_InternalErrorIsDisconnection ==
    /\ [](lm_exit = "error" =>
             /\ client_disconnected_event
             /\ lm_pc = "exited"
             /\ result_future # "pending"
             /\ ~ lm_invalid_state)
    /\ [][(lm_exit # "error" /\ lm_exit' = "error") =>
             result_future' = IF result_future = "pending"
                              THEN "exc_500" ELSE result_future]_vars

\* the loop was left through the error branch after some negative signals
\* below the threshold, and the pending result was resolved with status 500
C22_Witness ==
    /\ lm_exit = "error"
    /\ result_future = "exc_500"
    /\ disconnect_count > 0
    /\ disconnect_count < disconnect_threshold

(***************************************************************************)
(* C23: on a pool of n >= 1 sessions successive acquire_session calls go   *)
(* round the pool in order: counted from a call made with the cursor at 0, *)
(* the k-th call (k = 0, 1, 2, ...) on the same pool returns               *)
(* sessions[k mod n]; any n consecutive calls on a pool of n sessions      *)
(* return each session exactly once, and any 6 consecutive calls on a pool *)
(* of 3 sessions return each session exactly twice.                        *)
(***************************************************************************)
TimesReturned(s, from, to) ==
    Cardinality({m \in from..to : acquired[m].s = s})

C23_RoundRobin ==
    /\ \A i, k \in 1..Len(acquired) :
          (i <= k /\ acquired[i].c = 0 /\ acquired[i].n >= 1
                  /\ acquired[k].n = acquired[i].n)
             => acquired[k].s = sessions[((k - i) % acquired[i].n) + 1]
    /\ \A i \in 1..Len(acquired) :
          LET n == acquired[i].n
          IN (n >= 1 /\ i + n - 1 <= Len(acquired) /\ acquired[i + n - 1].n = n)
                => \A j \in 1..n : TimesReturned(sessions[j], i, i + n - 1) = 1
    /\ \A i \in 1..Len(acquired) :
          (acquired[i].n = 3 /\ i + 5 <= Len(acquired) /\ acquired[i + 5].n = 3)
             => \A j \in 1..3 : TimesReturned(sessions[j], i, i + 5) = 2

\* six calls were made on a pool of three sessions, the first with the
\* cursor at 0
C23_Witness ==
    /\ Len(acquired) = 6
    /\ acquired[1].c = 0
    /\ \A i \in 1..6 : acquired[i].n = 3

(***************************************************************************)
(* C24: the cursor stays within the pool, 0 <= _rr_index <                  *)
(* max(1, len(sessions)), in every reachable state, also when              *)
(* initialize_all appends sessions between acquire_session calls; an       *)
(* acquire_session call on an empty pool returns None and leaves the       *)
(* cursor as it was.                                                       *)
(***************************************************************************)
C24_CursorInRange ==
    /\ [](/\ 0 <= rr_index
          /\ rr_index < (IF Len(sessions) = 0 THEN 1 ELSE Len(sessions)))
    /\ [][(Len(acquired') > Len(acquired) /\ Len(sessions) = 0)
             => /\ acquired'[Len(acquired')].s = 0
                /\ rr_index' = rr_index
                /\ sessions' = sessions]_vars

\* a call on the empty pool came first, calls were made while the pool had
\* two sessions, and the pool has grown to three with the cursor off 0
C24_Witness ==
    /\ Len(acquired) >= 2
    /\ acquired[1].n = 0
    /\ \E i \in 1..Len(acquired) : acquired[i].n = 2
    /\ Len(sessions) = 3
    /\ rr_index > 0

(***************************************************************************)
(* C25: initialize_all leaves in the pool exactly the sessions whose       *)
(* initialize returned True, one per credential file of the directory, in  *)
(* the lexicographic order of the file names, whatever order the directory *)
(* is listed in; every credential file is tried once; with the directory   *)
(* missing, without credential files, or with every initialize failing     *)
(* the pool stays empty and initialize_all returns.                        *)
(***************************************************************************)
CredentialFiles ==
    IF auth_dir.exists
    THEN {f \in SeqRange(auth_dir.listing) : endswith_json(f)}
    ELSE {}

C25_PoolIsSuccessfulFilesInOrder ==
    /\ \A i, j \in 1..Len(sessions) : i < j => sessions[i] < sessions[j]
    /\ SeqRange(sessions) = {f \in AuthFiles : init_result[f] = "true"}
    /\ \A f \in AuthFiles : init_result[f] # "none" => f \in CredentialFiles
    /\ init_pc = "returned" =>
          \A f \in CredentialFiles : init_result[f] # "none"
    /\ (init_pc # "idle" /\ CredentialFiles = {}) =>
          (init_pc = "returned" /\ sessions = << >>)

\* the directory was listed out of order with another file in it;
\* initialize_all has returned with two sessions in the pool and one
\* credential file whose initialize failed
C25_Witness ==
    /\ init_pc = "returned"
    /\ Len(sessions) = 2
    /\ \E f \in AuthFiles : init_result[f] = "false"
    /\ Len(auth_dir.listing) = 4
    /\ auth_dir.listing[1] > auth_dir.listing[2]

(***************************************************************************)
(* C26 as stated: a session whose initialize failed, at whatever step, is  *)
(* not in the pool, is not marked ready, and holds no context and no page. *)
(***************************************************************************)
C26_FailedInitializeReleased ==
    \A f \in AuthFiles :
        init_result[f] = "false" =>
           /\ f \notin SeqRange(sessions)
           /\ ~ is_ready[f]
           /\ context[f] = "none"
           /\ ~ page[f]

(***************************************************************************)
(* C27: the model id of a store is updated atomically: under any           *)
(* interleaving of set_current_model_id and get_current_model_id calls     *)
(* (and of a set_browser_instance call that holds the lock across an       *)
(* await) every read returns the value of the latest write that was        *)
(* complete at the read, a write in progress is never seen, at most one    *)
(* call is inside the lock, and when all writers have finished the stored  *)
(* value is the model id one of them submitted, the one that wrote last.   *)
(***************************************************************************)
InsideLock ==
    {<<"writer", w>> : w \in {v \in Writers : wr_pc[v] \in {"locked", "written"}}}
       \cup {<<"reader", r>> : r \in {q \in Readers : rd_pc[q] = "locked"}}
       \cup (IF bi_pc = "awaiting" THEN {<<"browser", 0>>} ELSE {})

C27_ReadsSeeLatestCompleteWrite ==
    /\ \A r \in Readers : rd_pc[r] = "done" => rd_result[r] = rd_expected[r]
    /\ Cardinality(InsideLock) <= 1
    /\ (\A w \in Writers : wr_pc[w] = "done") =>
          /\ stores[Store].current_ai_studio_model_id \in Writers
          /\ stores[Store].current_ai_studio_model_id = st_completed

\* all writers have finished and two reads, made between the writes, have
\* returned different model ids
C27_Witness ==
    /\ \A w \in Writers : wr_pc[w] = "done"
    /\ \E r, q \in Readers :
          /\ rd_pc[r] = "done" /\ rd_pc[q] = "done"
          /\ rd_result[r] # None /\ rd_result[q] # None
          /\ rd_result[r] # rd_result[q]

(***************************************************************************)
(* C28 as stated: after reset_all_state every field of the store has its   *)
(* initial value, so that the store cannot be told from a new one: empty   *)
(* catalog, no model id, readiness flags false, empty excluded set and     *)
(* cache, the catalog-available event not set, no queue and locks.         *)
(***************************************************************************)
C28_ResetRestoresInitialState ==
    st_last_op = "reset_all_state" => stores[Store] = FreshStore

(***************************************************************************)
(* C29: the catalog-available event of a store is one-shot: it is not set  *)
(* before the first set_model_list call, every set_model_list call leaves  *)
(* it set, set() is called on it at most once, and no operation            *)
(* (reset_all_state included) clears it; set_model_list replaces the       *)
(* catalog by a copy of its argument, so that the catalog is the argument  *)
(* as it was at the call and later changes of the caller's list do not     *)
(* reach it.                                                               *)
(***************************************************************************)
C29_FetchEventOneShot ==
    /\ [](stores[Store].model_list_fetch_event <=> set_list_calls > 0)
    /\ [](fetch_event_sets <= 1)
    /\ [][stores[Store].model_list_fetch_event
             => stores[Store].model_list_fetch_event']_vars
    /\ [][set_list_calls' # set_list_calls
             => /\ catalog(Store)' = arg_list
                /\ stores[Store].model_list_fetch_event']_vars
    /\ [][arg_list' # arg_list => catalog(Store)' = catalog(Store)]_vars

\* the catalog was populated twice, the caller's list has changed since,
\* and after a reset_all_state the event is still set
C29_Witness ==
    /\ set_list_calls = 2
    /\ stores[Store].model_list_fetch_event
    /\ st_last_op = "reset_all_state"
    /\ arg_list # << >>
    /\ catalog(Store) = << >>

(***************************************************************************)
(* C30 as stated: at any time at most one GlobalStateManager instance is   *)
(* in use: the global _state_manager, the instance the ModelManager        *)
(* singleton holds and the instance the StateProxy holds are the same      *)
(* one, after any sequence of get_state_manager, get_model_manager,        *)
(* get_state_proxy and reset_global_state calls.                           *)
(***************************************************************************)
InstancesInUse == {state_manager, model_manager, state_proxy} \ {0}

C30_OneStoreInUse == Cardinality(InstancesInUse) <= 1

(***************************************************************************)
(* C34: under create_task calls the named index follows the latest         *)
(* submission: a create_task call under a name puts the new task in the    *)
(* index, and an entry of the index is changed only by a later create_task *)
(* under the name, which puts the newer task there, or by the              *)
(* done-callback of the task it holds, which empties it; the completion or *)
(* cancellation of a superseded older task leaves the entry of the newer   *)
(* task as it is.                                                          *)
(***************************************************************************)
C34_LastSubmissionWins ==
    [][/\ \A t \in Tasks :
             (task_state[t] = "new" /\ task_state'[t] = "pending"
                                    /\ task_name'[t] # NoName)
                => tm_named'[task_mgr'[t]][task_name'[t]] = t
       /\ \A m \in Managers, n \in Names :
             (tm_named[m][n] # 0 /\ tm_named'[m][n] # tm_named[m][n])
                => LET t == tm_named[m][n]
                       u == tm_named'[m][n]
                   IN \/ /\ u = 0
                         /\ task_state[t] = "done"
                         /\ task_state'[t] = "reaped"
                      \/ /\ u # 0
                         /\ task_state[u] = "new"
                         /\ task_state'[u] = "pending"
      ]_vars

\* a superseded task of the name X has finished and its done-callback is
\* due, while the newer task of the name is unfinished and in the index
C34_Witness ==
    \E t, u \in Tasks :
        /\ t < u
        /\ task_name[t] = "X" /\ task_name[u] = "X"
        /\ task_mgr[t] = task_mgr[u]
        /\ task_state[t] = "done"
        /\ task_state[u] = "pending"
        /\ tm_named[task_mgr[u]]["X"] = u

\* the number of passes of the poll loop in which the latest signals, those
\* the monitor keeps in view, were read: a pass reads the active probe first
RoundsOfSignals ==
    Cardinality({k \in 1..Len(lm_signals) : lm_signals[k].path = "active"})
      + (IF lm_signals # << >> /\ lm_signals[1].path = "passive" THEN 1 ELSE 0)

(***************************************************************************)
(* C35 as stated: the monitor declares the client gone through the         *)
(* threshold only when the client has appeared gone in 5 consecutive       *)
(* passes of the poll loop: the signals that reach the threshold were read *)
(* in at least 5 passes.                                                   *)
(***************************************************************************)
C35_DeclaredAfterFiveRounds ==
    Declared => RoundsOfSignals >= disconnect_threshold

(***************************************************************************)
(* C36 as stated: a cancellation of the monitor ends the poll loop at the  *)
(* await it is suspended in, and leaves the disconnect flag and the        *)
(* request's result as they are.                                           *)
(***************************************************************************)
C36_CancelEndsLoop ==
    [][lm_cancelled' # lm_cancelled
         => /\ lm_pc' = "exited"
            /\ client_disconnected_event' = client_disconnected_event
            /\ result_future' = result_future]_vars

(***************************************************************************)
(* C40 as stated: whatever initialize_all, Session.close and               *)
(* acquire_session calls came before, a session that acquire_session       *)
(* returns is one whose initialize returned True and which, at the call,   *)
(* has is_ready true and a page.                                           *)
(***************************************************************************)
C40_AcquiredIsUsable ==
    [][Len(acquired') > Len(acquired)
         => LET f == acquired'[Len(acquired')].s
            IN f # 0 => /\ init_result[f] = "true"
                        /\ is_ready[f]
                        /\ page[f]]_vars

(***************************************************************************)
(* C37 as stated: in every reachable state of the store the readiness      *)
(* flags agree with the stored handles: is_playwright_ready is true        *)
(* exactly when a playwright manager is stored, is_browser_connected only  *)
(* if a browser is stored, is_page_ready only if a page is stored; so      *)
(* when is_ready() returns true the three handles are stored and           *)
(* is_initializing is false.                                               *)
(***************************************************************************)
C37_FlagsAgreeWithHandles ==
    LET st == stores[Store] IN
    /\ st.is_playwright_ready <=> st.playwright_manager
    /\ st.is_browser_connected => st.browser_instance
    /\ st.is_page_ready => st.page_instance
    /\ is_ready_result(Store) => /\ st.playwright_manager
                                 /\ st.browser_instance
                                 /\ st.page_instance
                                 /\ ~ st.is_initializing

\* the coroutines that are inside a read or write of the store: those in a
\* cache_operation block, and the one inside `async with self._state_lock`
InsideStoreAccess ==
    Cardinality({w \in Writers : co_pc[w] = "inside"})
      + (IF state_lock[Store] # << >> THEN 1 ELSE 0)

(***************************************************************************)
(* C31 as stated: every access to a field of the store, the cache under    *)
(* cache_operation included, before and after initialize_locks_and_queues, *)
(* is made while the store's state lock is held, so that no two coroutines *)
(* are inside a read-or-write of the store at the same time.               *)
(***************************************************************************)
C31_AccessUnderStateLock ==
    /\ \A w \in Writers : co_pc[w] = "inside" => state_lock[Store] # << >>
    /\ InsideStoreAccess <= 1

\* the block of user u has been left and its exit is under way
BlockLeft(u) ==
    rc_pc[u] \in {"untrack_page", "close_page", "untrack_context",
                  "close_context"}

\* the context and the page of user u are closed and in neither tracking set
Released(u) ==
    /\ ctx_state[u] \in {"none", "closed"}
    /\ page_state[u] \in {"none", "closed"}
    /\ u \notin rm_contexts
    /\ u \notin rm_pages

C38_SetBrowserTerminates ==
    (mc_op = "set_browser") ~> (mc_op = "none" /\ rm_lock_free
                                   /\ rm_browser = sb_count)

\* caller c of switch_model_safe holds the switch lock and is at an await
\* of a store method, which has to enter the state lock
HoldsSwitchLockAtStoreCall(c) ==
    /\ switch_lock = c
    /\ mm_pc[c] = "locked"

(***************************************************************************)
(* C32 as stated: in no reachable state does a coroutine that holds one    *)
(* component lock wait to acquire a different lock: no caller holds the    *)
(* switch lock while the store method it awaits waits for the state lock.  *)
(***************************************************************************)
C32_NoLockHeldWhileWaiting ==
    \A c \in SwitchCallers :
        ~ (HoldsSwitchLockAtStoreCall(c) /\ ~ store_lock_free)

=============================================================================
